---------------------------- MODULE Spec2Model ----------------------------
(***************************************************************************)
(* A model of chevin.py: the GeotabReportGenerator's caches, its latest-   *)
(* reading reduction, the geofence test, the roster parser and the device  *)
(* reconciliation pass.                                                     *)
(*                                                                          *)
(* Conventions.  A Python dict is a function (keyed lookups only) or, when  *)
(* its iteration order is read, a sequence of records with distinct ids.    *)
(* A nested reference of a fetched record is [form, id]: form "obj" is      *)
(* {'id': id}, form "str" is the bare id string, form "none" is an absent   *)
(* key.  A text that is only compared for equality is a TLA+ string; a text *)
(* that is ordered, split or indexed is a sequence of characters.           *)
(***************************************************************************)
EXTENDS Integers, Sequences, FiniteSets, TLC

VARIABLES
    \* reference caches (__init__, cache_reference_data)
    devices_cache, groups_cache, users_cache, zones_cache, rules_cache,
    diagnostics_cache, controllers_cache,
    \* batch caches (__init__, cache_batch_data)
    trips_cache, exceptions_cache, fault_data_cache,
    device_status_info_cache, log_records_cache,
    odometer_data_cache, engine_hours_data_cache,
    batch_fetched,   \* what the two StatusData calls returned, [odometer, engine_hours]
    batch_pc,        \* "idle", "done" (returned) or "raised" (left by an exception)
    \* get_groups_change called from the roots (sync_vehicles_with_geotab 1009-1012)
    changeable_groups,
    closure_pc,      \* "idle", "done" or "RecursionError"
    \* sync_vehicles_with_geotab
    sync_pc,         \* "idle", "rows", "execute", "done"
    updates, devices, update_idx, matching_device, row_log,
    api_calls, devices_to_update, multi_calls, multi_result,
    \* parse_csv_updates
    csv_file, csv_updates, csv_pc,
    \* point_in_polygon
    pip_point, pip_polygon, pip_result, pip_pc,
    pip_toggles,     \* the values of i at which point_in_polygon flipped `inside`
    \* get_zones_for_location
    zone_latitude, zone_longitude,   \* [present, v]: None or a number
    zone_result,
    zone_evaluated,  \* ids of the zones handed to point_in_polygon, in call order
    zone_pc,
    \* run_scheduled_reports / generate_all_reports / process_chevin_sync
    run_pc,          \* "idle", "reference", "batch", "reports", "upload", "sync",
                     \* "reconcile", "done" (returned) or "aborted" (left by the handler of 1171)
    run_count,       \* scheduled runs started
    run_log,         \* this run's calls to the collaborators, in order
    authenticated,   \* what authenticate_geotab returned
    run_fetched,     \* what this run's Get calls returned: [reference, failed, window]
    reports,         \* the dict of the four reports once built, <<>> before
    uploaded,        \* the reports put on the server, in order
    \* format_duration
    dur_input, dur_result,
    dur_pc,     \* "idle", "returned" or "raised" (left by an exception)
    \* get_driver_from_device_status, get_most_recent_trip_from_cache
    lookup_device,   \* the device_id argument
    lookup_driver,   \* the driver id returned
    lookup_trip,     \* the trip returned, <<>> for {}
    lookup_pc,       \* "idle", "driver", "trip" (returned) or "raised"
    \* the server the reconciliation pass talks to, over two passes
    registry,        \* the devices the server holds
    pass_no,         \* 1 during the first call of sync_vehicles_with_geotab, then 2
    pass_roster,     \* the updates argument of both calls
    first_pass_calls \* the api_calls of the first pass

refVars == <<devices_cache, groups_cache, users_cache, zones_cache, rules_cache,
             diagnostics_cache, controllers_cache>>
batchVars == <<trips_cache, exceptions_cache, fault_data_cache,
               device_status_info_cache, log_records_cache,
               odometer_data_cache, engine_hours_data_cache, batch_fetched, batch_pc>>
closureVars == <<changeable_groups, closure_pc>>
syncVars == <<sync_pc, updates, devices, update_idx, matching_device, row_log,
              api_calls, devices_to_update, multi_calls, multi_result>>
csvVars == <<csv_file, csv_updates, csv_pc>>
pipVars == <<pip_point, pip_polygon, pip_result, pip_pc, pip_toggles>>
zoneVars == <<zone_latitude, zone_longitude, zone_result, zone_evaluated, zone_pc>>
runVars == <<run_pc, run_count, run_log, authenticated, run_fetched, reports, uploaded>>
durationVars == <<dur_input, dur_result, dur_pc>>
lookupVars == <<lookup_device, lookup_driver, lookup_trip, lookup_pc>>
passVars == <<registry, pass_no, pass_roster, first_pass_calls>>
moreVars == <<zoneVars, runVars, durationVars, lookupVars, passVars>>
vars == <<refVars, batchVars, closureVars, syncVars, csvVars, pipVars, moreVars>>

----------------------------------------------------------------------------
(* Generic helpers *)

Range(s) == {s[i] : i \in 1..Len(s)}

RECURSIVE SeqsUpTo(_, _)
SeqsUpTo(S, n) ==
    IF n = 0 THEN {<<>>}
    ELSE LET shorter == SeqsUpTo(S, n - 1)
         IN  shorter \cup {Append(s, x) : s \in {t \in shorter : Len(t) = n - 1}, x \in S}

\* Python's str '>' on two texts given as sequences of character codes:
\* lexicographic, a proper prefix being the smaller.
RECURSIVE StrGreater(_, _)
StrGreater(a, b) ==
    IF a = <<>> THEN FALSE
    ELSE IF b = <<>> THEN TRUE
    ELSE IF Head(a) # Head(b) THEN Head(a) > Head(b)
    ELSE StrGreater(Tail(a), Tail(b))

\* dict.get('id', '') behind record.get(key, {}): only a dict (or the absent
\* key's default {}) has .get; a bare string raises AttributeError.
RefRaises(ref) == ref.form = "str"
RefGetId(ref) == IF ref.form = "obj" THEN ref.id ELSE ""

ObjRef(id) == [form |-> "obj", id |-> id]
StrRef(id) == [form |-> "str", id |-> id]
NoRef == [form |-> "none", id |-> ""]

----------------------------------------------------------------------------
(* __init__ *)

InitCaches ==
    /\ devices_cache = <<>>
    /\ groups_cache = <<>>
    /\ users_cache = <<>>
    /\ zones_cache = <<>>
    /\ rules_cache = <<>>
    /\ diagnostics_cache = <<>>
    /\ controllers_cache = <<>>
    /\ trips_cache = <<>>
    /\ exceptions_cache = <<>>
    /\ fault_data_cache = <<>>
    /\ device_status_info_cache = <<>>
    /\ log_records_cache = <<>>
    /\ odometer_data_cache = <<>>
    /\ engine_hours_data_cache = <<>>
    /\ batch_fetched = [odometer |-> <<>>, engine_hours |-> <<>>]
    /\ batch_pc = "idle"

\* self.groups_change
groups_change == <<"b2867", "b27D4">>

----------------------------------------------------------------------------
(* cache_batch_data: the latest-reading reduction *)

\* data.get('dateTime', '') > cache[device_id].get('dateTime', '')
IsLater_StaleWins(data, cached) == StrGreater(cached.dateTime, data.dateTime)
IsLater(data, cached) == StrGreater(data.dateTime, cached.dateTime)

\* the dict after  cache[device_id] = data
DictSet(cache, key, value) ==
    [k \in (DOMAIN cache) \cup {key} |-> IF k = key THEN value ELSE cache[k]]

\* The loop "for data in <readings>" over one signal, from reading i on.
\* [raised, cache]: raised when a reading's device is a bare string.
RECURSIVE KeepLatest(_, _, _)
KeepLatest(cache, readings, i) ==
    IF i > Len(readings) THEN [raised |-> FALSE, cache |-> cache]
    ELSE LET data == readings[i]
         IN  IF RefRaises(data.device) THEN [raised |-> TRUE, cache |-> cache]
             ELSE LET device_id == RefGetId(data.device)
                  IN  IF /\ device_id # ""
                         /\ \/ device_id \notin DOMAIN cache
                            \/ IsLater(data, cache[device_id])
                      THEN KeepLatest(DictSet(cache, device_id, data), readings, i + 1)
                      ELSE KeepLatest(cache, readings, i + 1)

\* window: what the five windowed Get calls returned ([] when a call failed);
\* odometer_data, engine_hours_data: what the two StatusData calls returned.
\* The assignments of cache_batch_data.
CacheBatchAssign(window, odometer_data, engine_hours_data) ==
    /\ trips_cache' = window.trips
    /\ exceptions_cache' = window.exceptions
    /\ fault_data_cache' = window.faults
    /\ device_status_info_cache' = window.status
    /\ log_records_cache' = window.logs
    /\ LET odo == KeepLatest(odometer_data_cache, odometer_data, 1)
           eh  == KeepLatest(engine_hours_data_cache, engine_hours_data, 1)
       IN  /\ odometer_data_cache' = odo.cache
           /\ IF odo.raised
              THEN /\ engine_hours_data_cache' = engine_hours_data_cache
                   /\ batch_fetched' = [odometer |-> odometer_data, engine_hours |-> <<>>]
                   /\ batch_pc' = "raised"
              ELSE /\ engine_hours_data_cache' = eh.cache
                   /\ batch_fetched' = [odometer |-> odometer_data,
                                        engine_hours |-> engine_hours_data]
                   /\ batch_pc' = IF eh.raised THEN "raised" ELSE "done"

CacheBatchData(window, odometer_data, engine_hours_data) ==
    /\ batch_pc = "idle"
    /\ CacheBatchAssign(window, odometer_data, engine_hours_data)
    /\ UNCHANGED <<refVars, closureVars, syncVars, csvVars, pipVars, moreVars>>

----------------------------------------------------------------------------
(* get_groups_change and the managed ("changeable") group set *)

\* Frames the interpreter allows below the first get_groups_change call before
\* it raises RecursionError (sys.getrecursionlimit(), scaled to the model's
\* group tables: it exceeds the depth of every acyclic table over GroupIds).
RecursionLimit == 7

\* groups.get(group_id, {}).get('children', []), each child a {'id': ...}
GroupChildren(groups, group_id) ==
    IF group_id \in DOMAIN groups THEN groups[group_id].children ELSE <<>>

\* A slip that appends the children without descending into them.
GetGroupsChange_ChildrenOnly(group_id, groups, acc, depth) ==
    [raised |-> FALSE,
     list |-> acc \o SelectSeq(GroupChildren(groups, group_id), LAMBDA c : c # "")]

\* get_groups_change(group_id, groups, groups_change) called at recursion depth
\* `depth`; [raised, list]: raised when the recursion exceeds RecursionLimit.
RECURSIVE GetGroupsChange(_, _, _, _)
RECURSIVE ChildrenLoop(_, _, _, _, _)
GetGroupsChange(group_id, groups, acc, depth) ==
    IF depth > RecursionLimit THEN [raised |-> TRUE, list |-> acc]
    ELSE ChildrenLoop(GroupChildren(groups, group_id), 1, groups, acc, depth)

\* "for child in children", from child i on
ChildrenLoop(children, i, groups, acc, depth) ==
    IF i > Len(children) THEN [raised |-> FALSE, list |-> acc]
    ELSE LET child_id == children[i]
         IN  IF child_id = "" THEN ChildrenLoop(children, i + 1, groups, acc, depth)
             ELSE LET r == GetGroupsChange(child_id, groups, Append(acc, child_id),
                                           depth + 1)
                  IN  IF r.raised THEN r
                      ELSE ChildrenLoop(children, i + 1, groups, r.list, depth)

\* "for group_id in self.groups_change", from root i on
RECURSIVE RootsLoop(_, _, _)
RootsLoop(groups, i, acc) ==
    IF i > Len(groups_change) THEN [raised |-> FALSE, list |-> acc]
    ELSE LET r == GetGroupsChange(groups_change[i], groups, acc, 1)
         IN  IF r.raised THEN r ELSE RootsLoop(groups, i + 1, r.list)

ChangeableGroups(groups) == RootsLoop(groups, 1, <<>>)

\* The closure step of sync_vehicles_with_geotab on the cached group table.
BuildChangeableGroups ==
    /\ closure_pc = "idle"
    /\ LET r == ChangeableGroups(groups_cache)
       IN  /\ changeable_groups' = r.list
           /\ closure_pc' = IF r.raised THEN "RecursionError" ELSE "done"
    /\ UNCHANGED <<refVars, batchVars, syncVars, csvVars, pipVars, moreVars>>

----------------------------------------------------------------------------
(* cache_reference_data *)

\* list(d.values()) of  d = {r['id']: r for r in records}: a repeated id keeps
\* its first position and takes the last record.
RECURSIVE DictValues(_)
DictValues(records) ==
    IF records = <<>> THEN <<>>
    ELSE LET front == DictValues(SubSeq(records, 1, Len(records) - 1))
             r == records[Len(records)]
         IN  IF \E i \in 1..Len(front) : front[i].id = r.id
             THEN [i \in 1..Len(front) |-> IF front[i].id = r.id THEN r ELSE front[i]]
             ELSE Append(front, r)

\* {group['id']: group for group in groups}, read by key only
GroupDict(records) ==
    [id \in {r.id : r \in Range(records)} |->
        LET last == CHOOSE i \in 1..Len(records) :
                        /\ records[i].id = id
                        /\ \A j \in (i + 1)..Len(records) : records[j].id # id
        IN  records[last]]

\* fetched: what the seven Get calls returned, [] for a failed call.
\* The seven assignments of cache_reference_data.
CacheReferenceAssign(fetched) ==
    /\ devices_cache' = DictValues(fetched.devices)
    /\ groups_cache' = GroupDict(fetched.groups)
    /\ users_cache' = DictValues(fetched.users)
    /\ zones_cache' = DictValues(fetched.zones)
    /\ rules_cache' = DictValues(fetched.rules)
    /\ diagnostics_cache' = DictValues(fetched.diagnostics)
    /\ controllers_cache' = DictValues(fetched.controllers)

CacheReferenceData(fetched) ==
    /\ batch_pc = "idle"
    /\ sync_pc = "idle"
    /\ closure_pc = "idle"
    /\ devices_cache = <<>>
    /\ groups_cache = <<>>
    /\ CacheReferenceAssign(fetched)
    /\ UNCHANGED <<batchVars, closureVars, syncVars, csvVars, pipVars, moreVars>>

----------------------------------------------------------------------------
(* sync_vehicles_with_geotab *)

\* the match test of lines 1025-1026
Matches_SerialOnly(device, update) == device.serialNumber = update.serial
Matches(device, update) ==
    /\ device.serialNumber = update.serial
    /\ device.engineVehicleIdentificationNumber = update.vin

\* "for device in devices: if ...: matching_device = device; break", from
\* device i on; the index of the match,
\* 0 for None, -1 when device['serialNumber'] raises KeyError on the way.
MatchRaises(device) == "serialNumber" \notin DOMAIN device
RECURSIVE FindMatchingDevice(_, _, _)
FindMatchingDevice(devs, update, i) ==
    IF i > Len(devs) THEN 0
    ELSE IF MatchRaises(devs[i]) THEN -1
    ELSE IF Matches(devs[i], update) THEN i
    ELSE FindMatchingDevice(devs, update, i + 1)

\* update['name'] if update['name'] else update['serial']
NewName(update) == IF update.name # "" THEN update.name ELSE update.serial

\* line 1040: updated_device['name'] != new_name
NameDiffers_RawName(device, update) == device.name # update.name
NameDiffers(device, update) == device.name # NewName(update)

\* [g['id'] for g in groups] raises TypeError on a bare string
CurrentGroupsRaise_Never(device) == FALSE
CurrentGroupsRaise(device) == \E i \in 1..Len(device.groups) : RefRaises(device.groups[i])
CurrentGroupIds(device) == [i \in 1..Len(device.groups) |-> device.groups[i].id]

\* "Keep existing groups that are not changeable"
KeepsGroup(group, changeable) == group.form = "obj" /\ group.id \notin Range(changeable)
KeptGroupIds(device, changeable) ==
    LET kept == SelectSeq(device.groups, LAMBDA g : KeepsGroup(g, changeable))
    IN  [i \in 1..Len(kept) |-> kept[i].id]

\* line 1068
AcceptsGroup_AnyGroup(group_id, changeable, new_group_ids) ==
    group_id \notin Range(new_group_ids)
AcceptsGroup(group_id, changeable, new_group_ids) ==
    group_id \in Range(changeable) /\ group_id \notin Range(new_group_ids)

\* line 1071
IsGroupChange_Always(group_id, current_group_ids) == TRUE
IsGroupChange(group_id, current_group_ids) == group_id \notin Range(current_group_ids)

\* "for group_id in update_group_ids", from requested id i on;
\* acc = [ids |-> new_group_ids, changed |-> a group was added]
RECURSIVE AddRequested(_, _, _, _, _)
AddRequested(update_group_ids, i, changeable, current_group_ids, acc) ==
    IF i > Len(update_group_ids) THEN acc
    ELSE LET group_id == update_group_ids[i]
         IN  IF AcceptsGroup(group_id, changeable, acc.ids)
             THEN AddRequested(update_group_ids, i + 1, changeable, current_group_ids,
                      [ids |-> Append(acc.ids, group_id),
                       changed |-> acc.changed \/ IsGroupChange(group_id, current_group_ids)])
             ELSE AddRequested(update_group_ids, i + 1, changeable, current_group_ids, acc)

\* Lines 1034-1078 for one matched device: [raised, needs_update, entity].
DiffDevice(device, update, changeable) ==
    LET new_name == NewName(update)
        name_changed == NameDiffers(device, update)
        vin_changed == device.vehicleIdentificationNumber # update.vin
        added == AddRequested(update.groups, 1, changeable, CurrentGroupIds(device),
                              [ids |-> KeptGroupIds(device, changeable), changed |-> FALSE])
    IN  [raised |-> CurrentGroupsRaise(device),
         needs_update |-> name_changed \/ vin_changed \/ added.changed,
         entity |-> [device EXCEPT !.name = new_name,
                                   !.vehicleIdentificationNumber = update.vin,
                                   !.groups = [i \in 1..Len(added.ids) |-> ObjRef(added.ids[i])]]]

InitSync ==
    /\ sync_pc = "idle"
    /\ updates = <<>>
    /\ devices = <<>>
    /\ update_idx = 0
    /\ matching_device = 0
    /\ row_log = <<>>
    /\ api_calls = <<>>
    /\ devices_to_update = <<>>
    /\ multi_calls = <<>>
    /\ multi_result = "none"

InitClosure ==
    /\ changeable_groups = <<>>
    /\ closure_pc = "idle"

\* Lines 997-1018.  rows: the updates argument; fetched_devices, fetched_groups:
\* what the fallback Get calls return, read only when the cache is empty.
SyncStart(rows, fetched_devices, fetched_groups) ==
    /\ sync_pc = "idle"
    /\ closure_pc = "idle"
    /\ (devices_cache # <<>> => fetched_devices = <<>>)
    /\ (groups_cache # <<>> => fetched_groups = <<>>)
    /\ updates' = rows
    /\ IF rows = <<>>
       THEN /\ sync_pc' = "done"
            /\ UNCHANGED <<devices, update_idx, closureVars>>
       ELSE LET groups_dict == IF groups_cache # <<>> THEN groups_cache
                               ELSE GroupDict(fetched_groups)
                r == ChangeableGroups(groups_dict)
            IN  /\ devices' = IF devices_cache # <<>> THEN devices_cache
                              ELSE fetched_devices
                /\ changeable_groups' = r.list
                /\ closure_pc' = IF r.raised THEN "RecursionError" ELSE "done"
                /\ sync_pc' = IF r.raised THEN "done" ELSE "rows"
                /\ update_idx' = 1
    /\ UNCHANGED <<matching_device, row_log, api_calls, devices_to_update,
                   multi_calls, multi_result>>
    /\ UNCHANGED <<refVars, batchVars, csvVars, pipVars, moreVars>>

\* updated_device = dict(matching_device) (line 1036): the writes of lines
\* 1040-1078 go to the copy, and the registry's record is after the diff d
\* what it was before.
RecordAfterDiff_InPlace(device, d) ==
    IF d.raised THEN device ELSE d.entity
RecordAfterDiff(device, d) == device

\* The body of "for update in updates" (lines 1021-1089) on one row; acc is
\* [api_calls, devices_to_update, row_log].  A raise inside the body is caught
\* at line 1087 and the loop goes on.
ProcessRow(devs, changeable, update, acc) ==
    LET m == FindMatchingDevice(devs, update, 1)
        d == DiffDevice(devs[m], update, changeable)
    IN  IF m = -1
        THEN [acc EXCEPT !.row_log = Append(@, [device |-> 0, outcome |-> "error"])]
        ELSE IF m = 0
        THEN [acc EXCEPT !.row_log = Append(@, [device |-> 0, outcome |-> "no_match"])]
        ELSE IF d.raised
        THEN [acc EXCEPT !.row_log = Append(@, [device |-> m, outcome |-> "error"])]
        ELSE IF d.needs_update
        THEN [api_calls |-> Append(acc.api_calls,
                                   [method |-> "Set", typeName |-> "Device",
                                    entity |-> d.entity]),
              devices_to_update |-> Append(acc.devices_to_update, devs[m]),
              row_log |-> Append(acc.row_log, [device |-> m, outcome |-> "queued"])]
        ELSE [acc EXCEPT !.row_log = Append(@, [device |-> m, outcome |-> "no_update"])]

\* One iteration of "for update in updates" (lines 1020-1089).
ProcessUpdate ==
    /\ sync_pc = "rows"
    /\ update_idx <= Len(updates)
    /\ LET after == ProcessRow(devices, changeable_groups, updates[update_idx],
                               [api_calls |-> api_calls,
                                devices_to_update |-> devices_to_update,
                                row_log |-> row_log])
           m == FindMatchingDevice(devices, updates[update_idx], 1)
       IN  /\ matching_device' = m
           /\ api_calls' = after.api_calls
           /\ devices_to_update' = after.devices_to_update
           /\ row_log' = after.row_log
           /\ devices' = IF m > 0
                         THEN [devices EXCEPT ![m] =
                                  RecordAfterDiff(@, DiffDevice(@, updates[update_idx],
                                                                changeable_groups))]
                         ELSE devices
    \* list(self.devices_cache.values()) holds the cache's own records
    /\ devices_cache' = IF devices_cache # <<>> THEN devices' ELSE devices_cache
    /\ update_idx' = update_idx + 1
    /\ UNCHANGED <<sync_pc, updates, multi_calls, multi_result>>
    /\ UNCHANGED <<groups_cache, users_cache, zones_cache, rules_cache,
                   diagnostics_cache, controllers_cache>>
    /\ UNCHANGED <<batchVars, closureVars, csvVars, pipVars, moreVars>>

\* what self.api.multi_call can do
MultiCallResults == {"all", "fewer", "more", "not_list", "raised"}

\* A slip that sends the batch again when the call raised.
ExecuteApiCalls_Retry(result) ==
    /\ sync_pc = "rows"
    /\ update_idx > Len(updates)
    /\ IF api_calls # <<>>
       THEN /\ multi_calls' = IF result = "raised" THEN <<api_calls, api_calls>>
                              ELSE <<api_calls>>
            /\ multi_result' = result
       ELSE /\ result = "all"
            /\ UNCHANGED <<multi_calls, multi_result>>
    /\ sync_pc' = "done"
    /\ UNCHANGED <<updates, devices, update_idx, matching_device, row_log, api_calls,
                   devices_to_update>>
    /\ UNCHANGED <<refVars, batchVars, closureVars, csvVars, pipVars, moreVars>>

\* Lines 1091-1109: after the loop, one multi_call when anything is queued;
\* its result is only logged.
ExecuteApiCalls(result) ==
    /\ sync_pc = "rows"
    /\ update_idx > Len(updates)
    /\ IF api_calls # <<>>
       THEN /\ multi_calls' = Append(multi_calls, api_calls)
            /\ multi_result' = result
       ELSE /\ result = "all"
            /\ UNCHANGED <<multi_calls, multi_result>>
    /\ sync_pc' = "done"
    /\ UNCHANGED <<updates, devices, update_idx, matching_device, row_log, api_calls,
                   devices_to_update>>
    /\ UNCHANGED <<refVars, batchVars, closureVars, csvVars, pipVars, moreVars>>

----------------------------------------------------------------------------
(* The server between two calls of sync_vehicles_with_geotab: it holds the  *)
(* device registry that the fallback Get of line 1003 returns and applies   *)
(* the Set calls of a pass to it.                                           *)

InitPass(registries, rosters) ==
    /\ registry \in registries
    /\ pass_no = 1
    /\ pass_roster \in rosters
    /\ first_pass_calls = <<>>

\* Set(typeName='Device', entity): the record of the entity's id is replaced
RECURSIVE ApplyCalls(_, _, _)
ApplyCalls(devs, calls, i) ==
    IF i > Len(calls) THEN devs
    ELSE ApplyCalls([k \in 1..Len(devs) |->
                        IF devs[k].id = calls[i].entity.id THEN calls[i].entity ELSE devs[k]],
                    calls, i + 1)

\* a call of sync_vehicles_with_geotab with the roster, on empty caches
PassStart(fetched_groups) ==
    /\ pass_no \in {1, 2}
    /\ SyncStart(pass_roster, registry, fetched_groups)

\* the call has returned and its Set calls are applied; the next call starts
\* with its own api_calls and devices_to_update (lines 1017-1018)
ServerApplies ==
    /\ pass_no = 1
    /\ sync_pc = "done"
    /\ registry' = ApplyCalls(registry, api_calls, 1)
    /\ first_pass_calls' = api_calls
    /\ pass_no' = 2
    /\ sync_pc' = "idle" /\ updates' = <<>> /\ devices' = <<>> /\ update_idx' = 0
    /\ matching_device' = 0 /\ row_log' = <<>> /\ api_calls' = <<>>
    /\ devices_to_update' = <<>> /\ multi_calls' = <<>> /\ multi_result' = "none"
    /\ changeable_groups' = <<>> /\ closure_pc' = "idle"
    /\ UNCHANGED pass_roster
    /\ UNCHANGED <<refVars, batchVars, csvVars, pipVars, zoneVars, runVars, durationVars,
                   lookupVars>>

----------------------------------------------------------------------------
(* parse_csv_updates.  A line is a sequence of one-character strings. *)

Whitespace == {" ", "\t", "\n", "\r"}

\* str.strip()
RECURSIVE LStrip(_)
LStrip(s) == IF s # <<>> /\ Head(s) \in Whitespace THEN LStrip(Tail(s)) ELSE s
RECURSIVE RStrip(_)
RStrip(s) ==
    IF s # <<>> /\ s[Len(s)] \in Whitespace THEN RStrip(SubSeq(s, 1, Len(s) - 1)) ELSE s
Strip(s) == LStrip(RStrip(s))

\* str.replace(c, '')
RemoveChar(s, c) == SelectSeq(s, LAMBDA ch : ch # c)

\* str.split(sep): the fields between the separators; `field` is the field
\* being read, `fields` the ones already closed.
RECURSIVE SplitFrom(_, _, _, _)
SplitFrom(s, sep, field, fields) ==
    IF s = <<>> THEN Append(fields, field)
    ELSE IF Head(s) = sep THEN SplitFrom(Tail(s), sep, <<>>, Append(fields, field))
    ELSE SplitFrom(Tail(s), sep, Append(field, Head(s)), fields)
Split(s, sep) == SplitFrom(s, sep, <<>>, <<>>)

\* line.strip().replace('\r', '').replace('\n', '').split(',')
Tokens(line) == Split(RemoveChar(RemoveChar(Strip(line), "\r"), "\n"), ",")

\* the column test of line 966
WellFormed_AtLeast(tokens) == Len(tokens) >= 5
WellFormed(tokens) == Len(tokens) = 5

\* [g.strip() for g in tokens[4].split('|') if g.strip()]
GroupList(token) ==
    LET parts == Split(token, "|")
        stripped == [i \in 1..Len(parts) |-> Strip(parts[i])]
    IN  SelectSeq(stripped, LAMBDA g : g # <<>>)

\* the update dict of lines 967-973
ParseTokens(tokens) ==
    [serial |-> Strip(tokens[1]), id |-> Strip(tokens[2]), vin |-> Strip(tokens[3]),
     name |-> Strip(tokens[4]), groups |-> GroupList(tokens[5])]

\* the header test of lines 954-955 on lines[0]
IsHeader_ByFirstField(line) ==
    LET first_field == Split(Strip(line), ",")[1]
    IN  ~(Len(first_field) = 12 /\ first_field[1] = "G")
IsHeader(line) ==
    LET first_line == Strip(line)
    IN  Len(first_line) > 12 /\ (first_line[1] # "G" \/ first_line[13] # ",")

\* lines after "lines = lines[1:]" when the first line is a header
DataLines(lines) ==
    IF lines # <<>> /\ IsHeader(lines[1]) THEN Tail(lines) ELSE lines

\* "for line_num, line in enumerate(lines, 1)", from line i on
RECURSIVE ParseLines(_, _, _)
ParseLines(lines, i, parsed) ==
    IF i > Len(lines) THEN parsed
    ELSE LET tokens == Tokens(lines[i])
         IN  IF WellFormed(tokens)
             THEN ParseLines(lines, i + 1, Append(parsed, ParseTokens(tokens)))
             ELSE ParseLines(lines, i + 1, parsed)

InitCsv(files) ==
    /\ csv_file \in files
    /\ csv_updates = <<>>
    /\ csv_pc = "idle"

\* parse_csv_updates on the downloaded file (an empty file returns []).
ParseCsvUpdates ==
    /\ csv_pc = "idle"
    /\ csv_updates' = IF csv_file = <<>> THEN <<>>
                      ELSE ParseLines(DataLines(csv_file), 1, <<>>)
    /\ csv_pc' = "done"
    /\ UNCHANGED csv_file
    /\ UNCHANGED <<refVars, batchVars, closureVars, syncVars, pipVars, moreVars>>

----------------------------------------------------------------------------
(* point_in_polygon.  Coordinates are integers; a vertex is [x, y]. *)

Min(a, b) == IF a <= b THEN a ELSE b
Max(a, b) == IF a >= b THEN a ELSE b

\* x <= xinters, xinters = (y - p1y) * (p2x - p1x) / (p2y - p1y) + p1x, for
\* p1y # p2y.  The quotient is compared exactly, by cross-multiplication: on
\* the model's small integers the float result lies on the same side of x.
XLeXinters_Reversed(x, y, p1, p2) ==
    LET dy == p2.y - p1.y
        num == (y - p1.y) * (p2.x - p1.x)
    IN  IF dy > 0 THEN (x - p1.x) * dy >= num ELSE (x - p1.x) * dy <= num
XLeXinters(x, y, p1, p2) ==
    LET dy == p2.y - p1.y
        num == (y - p1.y) * (p2.x - p1.x)
    IN  IF dy > 0 THEN (x - p1.x) * dy <= num ELSE (x - p1.x) * dy >= num

\* "if y > min(p1y, p2y): if y <= max(p1y, p2y):"
YInBand_Closed(y, p1, p2) == y >= Min(p1.y, p2.y) /\ y <= Max(p1.y, p2.y)
YInBand(y, p1, p2) == y > Min(p1.y, p2.y) /\ y <= Max(p1.y, p2.y)

\* the nested tests of lines 253-258: the edge p1-p2 toggles `inside`
EdgeToggles(x, y, p1, p2) ==
    /\ YInBand(y, p1, p2)
    /\ x <= Max(p1.x, p2.x)
    /\ (p1.x = p2.x \/ XLeXinters(x, y, p1, p2))

\* "for i in range(1, n + 1)", from i on, p1 being the previous vertex
RECURSIVE EdgeLoop(_, _, _, _, _, _)
EdgeLoop(x, y, polygon_points, i, p1, inside) ==
    IF i > Len(polygon_points) THEN inside
    ELSE LET p2 == polygon_points[(i % Len(polygon_points)) + 1]
         IN  EdgeLoop(x, y, polygon_points, i + 1, p2,
                      IF EdgeToggles(x, y, p1, p2) THEN ~inside ELSE inside)

PointInPolygon(point_lat, point_lon, polygon_points) ==
    IF Len(polygon_points) < 3 THEN FALSE
    ELSE EdgeLoop(point_lon, point_lat, polygon_points, 1, polygon_points[1], FALSE)

\* the same loop, listing the iterations i that execute "inside = not inside"
RECURSIVE ToggleLoop(_, _, _, _, _, _)
ToggleLoop(x, y, polygon_points, i, p1, toggled) ==
    IF i > Len(polygon_points) THEN toggled
    ELSE LET p2 == polygon_points[(i % Len(polygon_points)) + 1]
         IN  ToggleLoop(x, y, polygon_points, i + 1, p2,
                        IF EdgeToggles(x, y, p1, p2) THEN Append(toggled, i) ELSE toggled)

PointInPolygonToggles(point_lat, point_lon, polygon_points) ==
    IF Len(polygon_points) < 3 THEN <<>>
    ELSE ToggleLoop(point_lon, point_lat, polygon_points, 1, polygon_points[1], <<>>)

InitPip(points, polygons) ==
    /\ pip_point \in points
    /\ pip_polygon \in polygons
    /\ pip_result = FALSE
    /\ pip_toggles = <<>>
    /\ pip_pc = "idle"

PointInPolygonCall ==
    /\ pip_pc = "idle"
    /\ pip_result' = PointInPolygon(pip_point.lat, pip_point.lon, pip_polygon)
    /\ pip_toggles' = PointInPolygonToggles(pip_point.lat, pip_point.lon, pip_polygon)
    /\ pip_pc' = "done"
    /\ UNCHANGED <<pip_point, pip_polygon>>
    /\ UNCHANGED <<refVars, batchVars, closureVars, syncVars, csvVars, moreVars>>

----------------------------------------------------------------------------
(* get_zones_for_location.  A coordinate argument is [present, v]: None is  *)
(* [present |-> FALSE, v |-> 0].  A zone is [id, name, points]; a missing    *)
(* name is "" and missing points are <<>>.                                   *)

Num(v) == [present |-> TRUE, v |-> v]
None == [present |-> FALSE, v |-> 0]

\* "not latitude": None and 0 are both falsy
Falsy(c) == ~c.present \/ c.v = 0

\* "if not latitude or not longitude: return ''"
NoLocation(latitude, longitude) == Falsy(latitude) \/ Falsy(longitude)

\* ', '.join(matching_zones), names being sequences of characters
RECURSIVE JoinNames(_)
JoinNames(names) ==
    IF names = <<>> THEN <<>>
    ELSE IF Len(names) = 1 THEN names[1]
    ELSE names[1] \o <<",", " ">> \o JoinNames(Tail(names))

\* "if not zone.get('points'): continue"
HasPoints(zone) == zone.points # <<>>

\* "for zone_id, zone in self.zones_cache.items()", from zone i on
RECURSIVE ZoneLoop(_, _, _, _, _)
ZoneLoop(latitude, longitude, zones, i, matching_zones) ==
    IF i > Len(zones) THEN matching_zones
    ELSE LET zone == zones[i]
         IN  IF /\ HasPoints(zone)
                /\ PointInPolygon(latitude.v, longitude.v, zone.points)
                /\ zone.name # <<>>
             THEN ZoneLoop(latitude, longitude, zones, i + 1, Append(matching_zones, zone.name))
             ELSE ZoneLoop(latitude, longitude, zones, i + 1, matching_zones)

\* the zones for which line 277 calls point_in_polygon
RECURSIVE ZoneCalls(_, _, _)
ZoneCalls(zones, i, called) ==
    IF i > Len(zones) THEN called
    ELSE ZoneCalls(zones, i + 1,
                   IF HasPoints(zones[i]) THEN Append(called, zones[i].id) ELSE called)

GetZonesForLocationResult(latitude, longitude, zones) ==
    IF NoLocation(latitude, longitude) THEN <<>>
    ELSE JoinNames(ZoneLoop(latitude, longitude, zones, 1, <<>>))

InitZone ==
    /\ zone_latitude = None
    /\ zone_longitude = None
    /\ zone_result = <<>>
    /\ zone_evaluated = <<>>
    /\ zone_pc = "idle"

GetZonesForLocation(latitude, longitude) ==
    /\ zone_pc = "idle"
    /\ zone_latitude' = latitude
    /\ zone_longitude' = longitude
    /\ zone_result' = GetZonesForLocationResult(latitude, longitude, zones_cache)
    /\ zone_evaluated' = IF NoLocation(latitude, longitude) THEN <<>>
                         ELSE ZoneCalls(zones_cache, 1, <<>>)
    /\ zone_pc' = "done"
    /\ UNCHANGED <<refVars, batchVars, closureVars, syncVars, csvVars, pipVars, runVars, durationVars, lookupVars, passVars>>

----------------------------------------------------------------------------
(* Cache lookups.  {} and a record without the key both give the default. *)

\* dict.get(key, default) on a record
Field(rec, key, default) == IF key \in DOMAIN rec THEN rec[key] ELSE default

\* cache.get(id, {}) on a cache kept as a sequence of records with distinct ids
CacheGet(cache, id) ==
    IF \E i \in 1..Len(cache) : cache[i].id = id
    THEN cache[CHOOSE i \in 1..Len(cache) : cache[i].id = id]
    ELSE <<>>

\* self.groups_cache.get(group_id, {})
GroupsGet(group_id) ==
    IF group_id \in DOMAIN groups_cache THEN groups_cache[group_id] ELSE <<>>

\* ', '.join(names)
RECURSIVE JoinStr(_)
JoinStr(names) ==
    IF names = <<>> THEN ""
    ELSE IF Len(names) = 1 THEN names[1]
    ELSE names[1] \o ", " \o JoinStr(Tail(names))

\* "x if isinstance(ref, str) else ref.get('id', '') if ref else ''"
GetIdEitherForm(ref) == IF ref.form = "none" THEN "" ELSE ref.id
\* "if isinstance(ref, dict): id = ref.get('id', '')", '' otherwise
GetIdDictOnly(ref) == IF ref.form = "obj" THEN ref.id ELSE ""

\* A slip that falls back on the id when the device is not cached.
GetDeviceName_FallbackId(device_id) == Field(CacheGet(devices_cache, device_id), "name", device_id)
GetDeviceName(device_id) == Field(CacheGet(devices_cache, device_id), "name", "")

GetDeviceGroups(device_id) ==
    LET groups == Field(CacheGet(devices_cache, device_id), "groups", <<>>)
        named == SelectSeq(groups, LAMBDA g : Field(GroupsGet(g.id), "name", "") # "")
    IN  JoinStr([i \in 1..Len(named) |-> GroupsGet(named[i].id).name])

\* (serial_number, employee_number)
GetUserInfo(user_id) ==
    LET user == CacheGet(users_cache, user_id)
        keys == Field(user, "keys", <<>>)
    IN  <<IF keys # <<>> THEN Field(keys[1], "serialNumber", "") ELSE "",
          Field(user, "employeeNo", "")>>

\* zone names are sequences of characters (see get_zones_for_location)
GetZoneNames(zone_ids) ==
    LET named == SelectSeq(zone_ids, LAMBDA z : Field(CacheGet(zones_cache, z), "name", <<>>) # <<>>)
    IN  JoinNames([i \in 1..Len(named) |-> CacheGet(zones_cache, named[i]).name])

\* the first status snapshot of the device gives the driver (lines 286-298)
GetDriverFromDeviceStatus_LastWins(device_id) ==
    LET hits == SelectSeq(device_status_info_cache,
                          LAMBDA s : GetIdEitherForm(Field(s, "device", NoRef)) = device_id)
    IN  IF hits = <<>> THEN "" ELSE GetIdEitherForm(Field(hits[Len(hits)], "driver", NoRef))
GetDriverFromDeviceStatus(device_id) ==
    LET hits == SelectSeq(device_status_info_cache,
                          LAMBDA s : GetIdEitherForm(Field(s, "device", NoRef)) = device_id)
    IN  IF hits = <<>> THEN "" ELSE GetIdEitherForm(Field(hits[1], "driver", NoRef))

\* the list comprehension of lines 439-440 reads every cached trip's device
MostRecentTripRaises == \E i \in 1..Len(trips_cache) : RefRaises(Field(trips_cache[i], "device", NoRef))
\* the list comprehension of lines 671-673 reads every cached log record's device
MatchingLogsRaise ==
    \E i \in 1..Len(log_records_cache) : RefRaises(Field(log_records_cache[i], "device", NoRef))

\* key=lambda x: x.get('stop', '')
StopOf(trip) == Field(trip, "stop", <<>>)

\* list.sort(key=..., reverse=True) is stable: a trip goes behind the trips
\* whose stop is not smaller
RECURSIVE InsertByStop(_, _)
InsertByStop(sorted, trip) ==
    IF sorted = <<>> THEN <<trip>>
    ELSE IF StrGreater(StopOf(trip), StopOf(Head(sorted))) THEN <<trip>> \o sorted
    ELSE <<Head(sorted)>> \o InsertByStop(Tail(sorted), trip)
RECURSIVE SortByStopDescending(_, _)
SortByStopDescending(trips, sorted) ==
    IF trips = <<>> THEN sorted
    ELSE SortByStopDescending(Tail(trips), InsertByStop(sorted, Head(trips)))

\* get_most_recent_trip_from_cache: [raised, trip], the trip <<>> for {}
GetMostRecentTripFromCache(device_id) ==
    LET device_trips ==
            SelectSeq(trips_cache,
                      LAMBDA trip : RefGetId(Field(trip, "device", NoRef)) = device_id)
    IN  IF MostRecentTripRaises THEN [raised |-> TRUE, trip |-> <<>>]
        ELSE IF device_trips = <<>> THEN [raised |-> FALSE, trip |-> <<>>]
        ELSE [raised |-> FALSE, trip |-> SortByStopDescending(device_trips, <<>>)[1]]

InitLookup ==
    /\ lookup_device = ""
    /\ lookup_driver = ""
    /\ lookup_trip = <<>>
    /\ lookup_pc = "idle"

\* one call of get_driver_from_device_status
GetDriverCall(device_id) ==
    /\ lookup_pc = "idle"
    /\ lookup_device' = device_id
    /\ lookup_driver' = GetDriverFromDeviceStatus(device_id)
    /\ lookup_trip' = <<>>
    /\ lookup_pc' = "driver"
    /\ UNCHANGED <<refVars, batchVars, closureVars, syncVars, csvVars, pipVars,
                   zoneVars, runVars, durationVars, passVars>>

\* one call of get_most_recent_trip_from_cache; the sort is on the list the
\* comprehension built
GetMostRecentTripCall(device_id) ==
    /\ lookup_pc = "idle"
    /\ lookup_device' = device_id
    /\ lookup_driver' = ""
    /\ lookup_trip' = GetMostRecentTripFromCache(device_id).trip
    /\ lookup_pc' = IF GetMostRecentTripFromCache(device_id).raised THEN "raised" ELSE "trip"
    /\ UNCHANGED <<refVars, batchVars, closureVars, syncVars, csvVars, pipVars,
                   zoneVars, runVars, durationVars, passVars>>

----------------------------------------------------------------------------
(* The four report builders.  A row keeps the columns that come from the    *)
(* record's references and the cache lookups; a builder is                  *)
(* [raised, rows]: raised when a read of a reference raises.                *)

DeviceColumns(device_id, driver_id) ==
    [DeviceId |-> device_id,
     DeviceName |-> GetDeviceName(device_id),
     DeviceGroup |-> GetDeviceGroups(device_id),
     DriverSerialNumber |-> GetUserInfo(driver_id)[1],
     DriverEmployeeNumber |-> GetUserInfo(driver_id)[2],
     DeviceSerialNumber |-> Field(CacheGet(devices_cache, device_id), "serialNumber", "")]

\* generate_asset_status_report: one row of "for status in device_status_info"
AssetStatusRow(status) ==
    IF MostRecentTripRaises THEN [raised |-> TRUE]
    ELSE [raised |-> FALSE,
          row |-> DeviceColumns(GetIdEitherForm(Field(status, "device", NoRef)),
                                GetIdEitherForm(Field(status, "driver", NoRef)))]

\* generate_trips_history_report: one row of "for trip in trips"
TripRow(trip) ==
    IF RefRaises(Field(trip, "device", NoRef)) THEN [raised |-> TRUE]
    ELSE [raised |-> FALSE,
          row |-> DeviceColumns(RefGetId(Field(trip, "device", NoRef)),
                                GetIdDictOnly(Field(trip, "driver", NoRef)))]

\* generate_exceptions_report: one row of "for exception in exceptions"
ExceptionRow(exception) ==
    IF \/ RefRaises(Field(exception, "device", NoRef))
       \/ RefRaises(Field(exception, "rule", NoRef))
       \/ MatchingLogsRaise
    THEN [raised |-> TRUE]
    ELSE [raised |-> FALSE,
          row |-> [c \in {"RuleName"} |->
                      Field(CacheGet(rules_cache, RefGetId(Field(exception, "rule", NoRef))),
                            "name", "")]
                  @@ DeviceColumns(RefGetId(Field(exception, "device", NoRef)),
                                   GetIdDictOnly(Field(exception, "driver", NoRef)))]

\* generate_engine_faults_report: one row of "for fault in faults"
FaultRow(fault) ==
    IF \/ RefRaises(Field(fault, "device", NoRef))
       \/ RefRaises(Field(fault, "diagnostic", NoRef))
       \/ RefRaises(Field(fault, "controller", NoRef))
    THEN [raised |-> TRUE]
    ELSE LET device_id == RefGetId(Field(fault, "device", NoRef))
         IN  [raised |-> FALSE,
              row |-> [DiagnosticName |->
                          Field(CacheGet(diagnostics_cache,
                                         RefGetId(Field(fault, "diagnostic", NoRef))), "name", ""),
                       ControllerName |->
                          Field(CacheGet(controllers_cache,
                                         RefGetId(Field(fault, "controller", NoRef))), "name", "")]
                      @@ DeviceColumns(device_id, GetDriverFromDeviceStatus(device_id))]

\* "for record in records: ... report_data.append(row)", from record i on;
\* kind names the builder
BuildRow(kind, record) ==
    CASE kind = "Asset_Status_Report" -> AssetStatusRow(record)
      [] kind = "Trips_History_Report" -> TripRow(record)
      [] kind = "Exceptions_Details_Report" -> ExceptionRow(record)
      [] kind = "Engine_Faults_Report" -> FaultRow(record)

RECURSIVE BuildReport(_, _, _, _)
BuildReport(kind, records, i, report_data) ==
    IF i > Len(records) THEN [raised |-> FALSE, rows |-> report_data]
    ELSE LET r == BuildRow(kind, records[i])
         IN  IF r.raised THEN [raised |-> TRUE, rows |-> report_data]
             ELSE BuildReport(kind, records, i + 1, Append(report_data, r.row))

----------------------------------------------------------------------------
(* A scheduled run: run_scheduled_reports builds a generator and calls      *)
(* generate_all_reports, which ends with process_chevin_sync.               *)

ReferenceTypes == <<"devices", "groups", "users", "zones", "rules", "diagnostics", "controllers">>
ReportKinds == <<"Asset_Status_Report", "Trips_History_Report",
                 "Exceptions_Details_Report", "Engine_Faults_Report">>

NoFetch == [reference |-> <<>>, failed |-> {}, window |-> <<>>]

InitRun ==
    /\ run_pc = "idle"
    /\ run_count = 0
    /\ run_log = <<>>
    /\ authenticated = FALSE
    /\ run_fetched = NoFetch
    /\ reports = <<>>
    /\ uploaded = <<>>

\* GeotabReportGenerator(): the caches of a new generator (lines 31-48), and
\* nothing left of an earlier reconciliation pass
NewGenerator_KeepCaches ==
    /\ UNCHANGED <<refVars, batchVars>>
    /\ changeable_groups' = <<>> /\ closure_pc' = "idle"
    /\ sync_pc' = "idle" /\ updates' = <<>> /\ devices' = <<>> /\ update_idx' = 0
    /\ matching_device' = 0 /\ row_log' = <<>> /\ api_calls' = <<>>
    /\ devices_to_update' = <<>> /\ multi_calls' = <<>> /\ multi_result' = "none"
NewGenerator ==
    /\ devices_cache' = <<>> /\ groups_cache' = <<>> /\ users_cache' = <<>>
    /\ zones_cache' = <<>> /\ rules_cache' = <<>> /\ diagnostics_cache' = <<>>
    /\ controllers_cache' = <<>>
    /\ trips_cache' = <<>> /\ exceptions_cache' = <<>> /\ fault_data_cache' = <<>>
    /\ device_status_info_cache' = <<>> /\ log_records_cache' = <<>>
    /\ odometer_data_cache' = <<>> /\ engine_hours_data_cache' = <<>>
    /\ batch_fetched' = [odometer |-> <<>>, engine_hours |-> <<>>]
    /\ batch_pc' = "idle"
    /\ changeable_groups' = <<>> /\ closure_pc' = "idle"
    /\ sync_pc' = "idle" /\ updates' = <<>> /\ devices' = <<>> /\ update_idx' = 0
    /\ matching_device' = 0 /\ row_log' = <<>> /\ api_calls' = <<>>
    /\ devices_to_update' = <<>> /\ multi_calls' = <<>> /\ multi_result' = "none"

\* "if not self.authenticate_geotab(): ... return"
AfterAuthentication_Ignored(auth_ok) == "reference"
AfterAuthentication(auth_ok) == IF auth_ok THEN "reference" ELSE "done"

\* run_scheduled_reports up to the authentication (lines 1176-1177, 1143-1146);
\* auth_ok: whether authenticate_geotab succeeds
RunStart(auth_ok) ==
    /\ run_pc \in {"idle", "done", "aborted"}
    /\ NewGenerator
    /\ run_count' = run_count + 1
    /\ run_log' = <<"authenticate">>
    /\ authenticated' = auth_ok
    /\ run_pc' = AfterAuthentication(auth_ok)
    /\ run_fetched' = NoFetch
    /\ reports' = <<>>
    /\ uploaded' = <<>>
    /\ UNCHANGED <<csvVars, pipVars, zoneVars, durationVars, lookupVars, passVars>>

\* get_geotab_data: the records of a call, [] when the call raised
GetGeotabData(records, call_failed) == IF call_failed THEN <<>> ELSE records

\* the statement after cache_reference_data() is cache_batch_data() (line 1151)
AfterReference_BuildersFirst == "reports"
AfterReference == "batch"

\* cache_reference_data (line 1148).  reference: the records the server holds,
\* by entity type; failed: the entity types whose Get call raises
RunCacheReference(reference, failed) ==
    /\ run_pc = "reference"
    /\ CacheReferenceAssign([type \in Range(ReferenceTypes) |->
                                GetGeotabData(reference[type], type \in failed)])
    /\ run_fetched' = [run_fetched EXCEPT !.reference = reference, !.failed = failed]
    /\ run_log' = run_log \o [i \in 1..Len(ReferenceTypes) |-> "Get:" \o ReferenceTypes[i]]
    /\ run_pc' = AfterReference
    /\ UNCHANGED <<run_count, authenticated, reports, uploaded>>
    /\ UNCHANGED <<batchVars, closureVars, syncVars, csvVars, pipVars, zoneVars, durationVars, lookupVars, passVars>>

\* cache_batch_data (line 1151); a raise leaves through the handler of line 1171
RunCacheBatch(window, odometer_data, engine_hours_data) ==
    /\ run_pc = "batch"
    /\ CacheBatchAssign(window, odometer_data, engine_hours_data)
    /\ run_fetched' = [run_fetched EXCEPT !.window = window]
    /\ run_log' = run_log
           \o <<"Get:trips", "Get:exceptions", "Get:faults", "Get:status", "Get:logs",
                "Get:odometer">>
           \o (IF KeepLatest(odometer_data_cache, odometer_data, 1).raised
               THEN <<>> ELSE <<"Get:engine_hours">>)
           \o (IF batch_pc' = "raised" THEN <<"raise:cache_batch_data">> ELSE <<>>)
    /\ run_pc' = IF batch_pc' = "raised" THEN "aborted" ELSE "reports"
    /\ UNCHANGED <<run_count, authenticated, reports, uploaded>>
    /\ UNCHANGED <<refVars, closureVars, syncVars, csvVars, pipVars, zoneVars, durationVars, lookupVars, passVars>>

\* the telemetry cache a builder reads
RecordsOf(kind) ==
    CASE kind = "Asset_Status_Report" -> device_status_info_cache
      [] kind = "Trips_History_Report" -> trips_cache
      [] kind = "Exceptions_Details_Report" -> exceptions_cache
      [] kind = "Engine_Faults_Report" -> fault_data_cache

Built(kind) == BuildReport(kind, RecordsOf(kind), 1, <<>>)

\* the first builder of the dict display (lines 1154-1159) that raises, 0 if none
FirstRaising ==
    IF \E i \in 1..Len(ReportKinds) : Built(ReportKinds[i]).raised
    THEN CHOOSE i \in 1..Len(ReportKinds) :
             /\ Built(ReportKinds[i]).raised
             /\ \A j \in 1..(i - 1) : ~Built(ReportKinds[j]).raised
    ELSE 0
BuildersCalled ==
    IF FirstRaising = 0 THEN ReportKinds ELSE SubSeq(ReportKinds, 1, FirstRaising)

\* the four builders (lines 1154-1159); a raise in any of them leaves `reports`
\* unassigned and the run through the handler of line 1171
RunGenerateReports ==
    /\ run_pc = "reports"
    /\ LET raised == FirstRaising # 0
       IN  /\ reports' = IF raised THEN <<>>
                         ELSE [kind \in Range(ReportKinds) |-> Built(kind).rows]
           /\ run_log' = run_log
                  \o [i \in 1..Len(BuildersCalled) |-> "build:" \o BuildersCalled[i]]
                  \o (IF raised THEN <<"raise:" \o BuildersCalled[Len(BuildersCalled)]>>
                      ELSE <<>>)
           /\ run_pc' = IF raised THEN "aborted" ELSE "upload"
    /\ UNCHANGED <<run_count, authenticated, run_fetched, uploaded>>
    /\ UNCHANGED <<refVars, batchVars, closureVars, syncVars, csvVars, pipVars, zoneVars, durationVars, lookupVars, passVars>>

\* save_reports_to_sftp (line 1164).  connected: the connection opens;
\* failing: the reports whose upload raises (logged, lines 853-854)
RunSaveReports(connected, failing) ==
    /\ run_pc = "upload"
    /\ uploaded' = IF connected THEN SelectSeq(ReportKinds, LAMBDA kind : kind \notin failing)
                   ELSE <<>>
    /\ run_log' = run_log \o <<"connect">>
           \o (IF connected THEN [i \in 1..Len(ReportKinds) |-> "put:" \o ReportKinds[i]]
               ELSE <<>>)
    /\ run_pc' = "sync"
    /\ UNCHANGED <<run_count, authenticated, run_fetched, reports>>
    /\ UNCHANGED <<refVars, batchVars, closureVars, syncVars, csvVars, pipVars, zoneVars, durationVars, lookupVars, passVars>>

\* process_chevin_sync up to the download (lines 1118-1122)
RunDownload(downloaded) ==
    /\ run_pc = "sync"
    /\ run_log' = Append(run_log, "download")
    /\ run_pc' = IF downloaded THEN "reconcile" ELSE "done"
    /\ UNCHANGED <<run_count, authenticated, run_fetched, reports, uploaded>>
    /\ UNCHANGED <<refVars, batchVars, closureVars, syncVars, csvVars, pipVars, zoneVars, durationVars, lookupVars, passVars>>

\* the pass over the parsed roster has returned (lines 1131-1133)
RunEnd ==
    /\ run_pc = "reconcile"
    /\ sync_pc = "done"
    /\ run_pc' = "done"
    /\ UNCHANGED <<run_count, run_log, authenticated, run_fetched, reports, uploaded>>
    /\ UNCHANGED <<refVars, batchVars, closureVars, syncVars, csvVars, pipVars, zoneVars, durationVars, lookupVars, passVars>>

----------------------------------------------------------------------------
(* format_duration.  The argument is [kind, n, text, clock]: kind "none" is *)
(* None, "num" the int n, "text" a str given as a sequence of characters,   *)
(* "clock" an object with hour, minute and second.  The texts keep to       *)
(* digits, '.', ':', '-', blanks, quotes and letters that spell none of     *)
(* float()'s other forms (exponent, inf, nan, '_').                         *)

DigitChars == <<"0", "1", "2", "3", "4", "5", "6", "7", "8", "9">>
IsDigitChar(c) == \E d \in 1..10 : DigitChars[d] = c
DigitValue(c) == (CHOOSE d \in 1..10 : DigitChars[d] = c) - 1

\* str.isdigit()
IsDigit(s) == s # <<>> /\ \A i \in 1..Len(s) : IsDigitChar(s[i])

RECURSIVE DigitsValue(_)
DigitsValue(s) ==
    IF s = <<>> THEN 0
    ELSE DigitsValue(SubSeq(s, 1, Len(s) - 1)) * 10 + DigitValue(s[Len(s)])

RECURSIVE Digits(_)
Digits(n) ==
    IF n < 10 THEN <<DigitChars[n + 1]>>
    ELSE Append(Digits(n \div 10), DigitChars[(n % 10) + 1])

\* str(n) of an int
Str(n) == IF n < 0 THEN <<"-">> \o Digits(-n) ELSE Digits(n)

\* f"{n:02d}"
Pad2(n) == IF n >= 0 /\ n < 10 THEN <<"0">> \o Digits(n) ELSE Str(n)

RECURSIVE Pow10(_)
Pow10(k) == IF k = 0 THEN 1 ELSE 10 * Pow10(k - 1)

\* str.find(c): the first position of c, 0 when there is none
IndexOf(s, c) ==
    IF \E i \in 1..Len(s) : s[i] = c
    THEN CHOOSE i \in 1..Len(s) : s[i] = c /\ \A j \in 1..(i - 1) : s[j] # c
    ELSE 0

\* str.rfind(c, 0, end): the last position of c before position `end`
LastIndexBefore(s, c, end) ==
    IF \E i \in 1..(end - 1) : s[i] = c
    THEN CHOOSE i \in 1..(end - 1) : s[i] = c /\ \A j \in (i + 1)..(end - 1) : s[j] # c
    ELSE 0

\* str.strip(chars)
RECURSIVE LStripChars(_, _)
LStripChars(s, chars) ==
    IF s # <<>> /\ Head(s) \in chars THEN LStripChars(Tail(s), chars) ELSE s
RECURSIVE RStripChars(_, _)
RStripChars(s, chars) ==
    IF s # <<>> /\ s[Len(s)] \in chars
    THEN RStripChars(SubSeq(s, 1, Len(s) - 1), chars) ELSE s
StripChars(s, chars) == LStripChars(RStripChars(s, chars), chars)

Signs == {"-", "+"}
Unsigned(s) == IF s # <<>> /\ Head(s) \in Signs THEN Tail(s) ELSE s
Negative(s) == s # <<>> /\ Head(s) = "-"

\* int(text): [ok, v]; ok is FALSE where int() raises ValueError
ParseInt(text) ==
    LET s == Strip(text)
        body == Unsigned(s)
    IN  IF IsDigit(body)
        THEN [ok |-> TRUE,
              v |-> IF Negative(s) THEN -DigitsValue(body) ELSE DigitsValue(body)]
        ELSE [ok |-> FALSE, v |-> 0]

\* float(text): [ok, neg, whole, num, den], the number (whole + num/den),
\* negated when neg; ok is FALSE where float() raises ValueError
ParseFloat(text) ==
    LET s == Strip(text)
        body == Unsigned(s)
        dot == IndexOf(body, ".")
        whole == IF dot = 0 THEN body ELSE SubSeq(body, 1, dot - 1)
        frac == IF dot = 0 THEN <<>> ELSE SubSeq(body, dot + 1, Len(body))
    IN  [ok |-> IsDigit(whole \o frac), neg |-> Negative(s),
         whole |-> IF IsDigit(whole) THEN DigitsValue(whole) ELSE 0,
         num |-> IF IsDigit(frac) THEN DigitsValue(frac) ELSE 0,
         den |-> Pow10(Len(frac))]

\* int(f * k): truncated towards zero
IntOfScaled(f, k) ==
    LET magnitude == (f.whole * k * f.den + f.num * k) \div f.den
    IN  IF f.neg THEN -magnitude ELSE magnitude

\* lines 410-414: total seconds as HH:MM:SS
FormatSeconds(total_seconds) ==
    Pad2(total_seconds \div 3600) \o <<":">> \o Pad2((total_seconds % 3600) \div 60)
        \o <<":">> \o Pad2(total_seconds % 60)

NoDuration == [kind |-> "none", n |-> 0, text |-> <<>>,
               clock |-> [hour |-> 0, minute |-> 0, second |-> 0]]
NumDuration(n) == [NoDuration EXCEPT !.kind = "num", !.n = n]
TextDuration(text) == [NoDuration EXCEPT !.kind = "text", !.text = text]
ClockDuration(h, m, s) ==
    [NoDuration EXCEPT !.kind = "clock", !.clock = [hour |-> h, minute |-> m, second |-> s]]

\* line 351: not duration_input or duration_input == '' or duration_input is None
IsEmptyDuration(duration_input) ==
    \/ duration_input.kind = "none"
    \/ duration_input.kind = "num" /\ duration_input.n = 0
    \/ duration_input.kind = "text" /\ duration_input.text = <<>>

\* line 358: str(duration_input).strip()
DurationStr(duration_input) ==
    Strip(IF duration_input.kind = "num" THEN Str(duration_input.n)
          ELSE duration_input.text)

\* line 361
IsMillisecondCount(duration_str) == IsDigit(RemoveChar(duration_str, "."))

\* lines 362-366: [raised, value]
MillisecondBranch(duration_str) ==
    LET f == ParseFloat(duration_str)
    IN  IF f.ok THEN [raised |-> FALSE, value |-> FormatSeconds(f.whole \div 1000)]
        ELSE [raised |-> TRUE, value |-> <<>>]

\* lines 374-390: the day count split off, [total_seconds, duration_str];
\* a day part float() rejects leaves the text whole
DaysSplit(duration_str) ==
    LET first_colon == IndexOf(duration_str, ":")
        dot_before_colon == LastIndexBefore(duration_str, ".", first_colon)
        days == ParseFloat(SubSeq(duration_str, 1, dot_before_colon - 1))
    IN  IF /\ "." \in Range(duration_str)
           /\ ":" \in Range(duration_str)
           /\ dot_before_colon # 0
           /\ days.ok
        THEN [total_seconds |-> IntOfScaled(days, 24 * 3600),
              duration_str |-> SubSeq(duration_str, dot_before_colon + 1, Len(duration_str))]
        ELSE [total_seconds |-> 0, duration_str |-> duration_str]

\* lines 393-407: the seconds of the clock part, [raised, seconds]
ClockSeconds(duration_str) ==
    LET time_parts == Split(duration_str, ":")
        hours == ParseInt(time_parts[1])
        minutes == ParseInt(time_parts[2])
        seconds == IF Len(time_parts) >= 3 THEN ParseFloat(time_parts[3])
                   ELSE ParseFloat(<<"0">>)
    IN  IF ":" \notin Range(duration_str) THEN [raised |-> FALSE, seconds |-> 0]
        ELSE IF ~hours.ok \/ ~minutes.ok \/ ~seconds.ok
             THEN [raised |-> TRUE, seconds |-> 0]
        ELSE [raised |-> FALSE,
              seconds |-> hours.v * 3600 + minutes.v * 60 + IntOfScaled(seconds, 1)]

\* the body of the try block, [raised, value]
FormatDurationBody(duration_input) ==
    IF IsEmptyDuration(duration_input) THEN [raised |-> FALSE, value |-> <<>>]
    ELSE IF duration_input.kind = "clock"
         THEN [raised |-> FALSE,
               value |-> Pad2(duration_input.clock.hour) \o <<":">>
                         \o Pad2(duration_input.clock.minute) \o <<":">>
                         \o Pad2(duration_input.clock.second)]
    ELSE IF IsMillisecondCount(DurationStr(duration_input))
         THEN MillisecondBranch(DurationStr(duration_input))
    ELSE LET split == DaysSplit(StripChars(DurationStr(duration_input), {"\"", "'"}))
             clock == ClockSeconds(split.duration_str)
         IN  IF clock.raised THEN [raised |-> TRUE, value |-> <<>>]
             ELSE [raised |-> FALSE,
                   value |-> FormatSeconds(split.total_seconds + clock.seconds)]

\* the handler of lines 416-418: what format_duration does, [raised, value]
FormatDurationOutcome(duration_input) ==
    [raised |-> FALSE,
     value |-> IF FormatDurationBody(duration_input).raised THEN <<>>
               ELSE FormatDurationBody(duration_input).value]

InitDuration(inputs) ==
    /\ dur_input \in inputs
    /\ dur_result = <<>>
    /\ dur_pc = "idle"

\* one call of format_duration (ms_to_minutes passes its argument through)
FormatDuration ==
    /\ dur_pc = "idle"
    /\ dur_result' = FormatDurationOutcome(dur_input).value
    /\ dur_pc' = IF FormatDurationOutcome(dur_input).raised THEN "raised"
                      ELSE "returned"
    /\ UNCHANGED dur_input
    /\ UNCHANGED <<refVars, batchVars, closureVars, syncVars, csvVars, pipVars,
                   zoneVars, runVars, lookupVars, passVars>>

----------------------------------------------------------------------------
(* Specification of the batch caches: cache_batch_data on any fetch results *)

\* timestamps of one fixed format, as character codes: T1 < T2 < T3
T1 == <<1, 0>>
T2 == <<1, 1>>
T3 == <<2, 0>>

MaxReadings == 3

DeviceIds == <<"d1", "d2", "d3">>

\* StatusData readings: two devices, a reading without device, a reading whose
\* device is a bare id, and a reading without dateTime
Readings ==
    [device : {ObjRef("d1"), ObjRef("d2"), NoRef, StrRef("d1")}, dateTime : {T1, T2, T3}]
        \cup {[device |-> ObjRef("d1"), dateTime |-> <<>>]}

NoWindow == [trips |-> <<>>, exceptions |-> <<>>, faults |-> <<>>, status |-> <<>>,
             logs |-> <<>>]
SomeWindow ==
    [trips |-> <<[id |-> "t1", device |-> ObjRef("d1"), stop |-> T1]>>,
     exceptions |-> <<[id |-> "e1", device |-> ObjRef("d1"), rule |-> ObjRef("r1")]>>,
     faults |-> <<[id |-> "f1", device |-> ObjRef("d2"), dateTime |-> T2]>>,
     status |-> <<[device |-> ObjRef("d1"), driver |-> ObjRef("u1")]>>,
     logs |-> <<[id |-> "l1", device |-> ObjRef("d1"), dateTime |-> T1]>>]
WindowFetches == {NoWindow, SomeWindow}

InitIdle ==
    /\ InitCaches
    /\ InitClosure
    /\ InitSync

\* nothing called yet on the operations a specification does not exercise
InitRest ==
    /\ InitZone
    /\ InitRun
    /\ InitDuration({NoDuration})
    /\ InitLookup
    /\ InitPass({<<>>}, {<<>>})

InitBatch ==
    /\ InitIdle
    /\ InitCsv({<<>>})
    /\ InitPip({[lat |-> 0, lon |-> 0]}, {<<>>})
    /\ InitRest

NextBatch ==
    /\ batch_pc = "idle"
    /\ \E window \in WindowFetches :
        \E odometer_data \in SeqsUpTo(Readings, MaxReadings) :
            \E engine_hours_data \in SeqsUpTo(Readings, MaxReadings - Len(odometer_data)) :
                CacheBatchData(window, odometer_data, engine_hours_data)

SpecBatch == InitBatch /\ [][NextBatch]_vars

\* `cache` holds, for each device id with a reading in `readings` and for no
\* other key, one of that device's readings, and none of them is later.
LatestKept(cache, readings) ==
    LET ids == {RefGetId(r.device) : r \in Range(readings)} \ {""}
    IN  /\ DOMAIN cache = ids
        /\ \A d \in ids :
              /\ cache[d] \in Range(readings)
              /\ RefGetId(cache[d].device) = d
              /\ \A r \in Range(readings) :
                    RefGetId(r.device) = d => ~StrGreater(r.dateTime, cache[d].dateTime)

\* C1: once cache_batch_data has processed the odometer and the engine-hours
\* readings, each cache holds for every device id with at least one reading
\* exactly one reading, one with the greatest dateTime among all the readings
\* fetched for that device, whatever the order of arrival.
C1_LatestReadingKept ==
    batch_pc = "done" =>
        /\ LatestKept(odometer_data_cache, batch_fetched.odometer)
        /\ LatestKept(engine_hours_data_cache, batch_fetched.engine_hours)

\* The readings of d1 arrive latest first and the T3 reading is the one kept.
C1_Witness ==
    /\ batch_pc = "done"
    /\ batch_fetched.odometer = <<[device |-> ObjRef("d1"), dateTime |-> T3],
                                  [device |-> ObjRef("d1"), dateTime |-> T1],
                                  [device |-> ObjRef("d1"), dateTime |-> T2]>>
    /\ odometer_data_cache["d1"].dateTime = T3

----------------------------------------------------------------------------
(* Specification of the managed group set: the closure on any group table *)

GroupIdSeq == <<"b2867", "b27D4", "A", "B", "C">>
GroupIds == Range(GroupIdSeq)

MaxEdges == 4

\* every children relation over GroupIds with at most n parent-child pairs
RECURSIVE EdgeSets(_)
EdgeSets(n) ==
    IF n = 0 THEN {{}}
    ELSE LET fewer == EdgeSets(n - 1)
         IN  fewer \cup {E \cup {e} : E \in fewer, e \in GroupIds \X GroupIds}

\* the Group records of a children relation: the groups it mentions, each
\* with its children in the order of GroupIdSeq
GroupRecords(E) ==
    LET mentioned == SelectSeq(GroupIdSeq,
                         LAMBDA g : \E e \in E : e[1] = g \/ e[2] = g)
    IN  [i \in 1..Len(mentioned) |->
            [id |-> mentioned[i], name |-> mentioned[i],
             children |-> SelectSeq(GroupIdSeq, LAMBDA c : <<mentioned[i], c>> \in E)]]

NoReference == [devices |-> <<>>, groups |-> <<>>, users |-> <<>>, zones |-> <<>>,
                rules |-> <<>>, diagnostics |-> <<>>, controllers |-> <<>>]

NextClosure ==
    \/ /\ groups_cache = <<>>
       /\ closure_pc = "idle"
       /\ \E E \in EdgeSets(MaxEdges) :
              CacheReferenceData([NoReference EXCEPT !.groups = GroupRecords(E)])
    \/ BuildChangeableGroups

SpecClosure == InitBatch /\ [][NextClosure]_vars

ChildIds(groups, g) == Range(GroupChildren(groups, g))

\* the least set holding S and the children of its members
RECURSIVE DescendantsFrom(_, _)
DescendantsFrom(groups, S) ==
    LET next == S \cup UNION {ChildIds(groups, g) : g \in S}
    IN  IF next = S THEN S ELSE DescendantsFrom(groups, next)

ProperDescendants(groups, roots) ==
    DescendantsFrom(groups, UNION {ChildIds(groups, r) : r \in roots})

Parents(groups, g) == {p \in DOMAIN groups : g \in ChildIds(groups, p)}

\* every group has at most one parent and none is its own descendant
IsForest(groups) ==
    \A g \in GroupIds :
        /\ Cardinality(Parents(groups, g)) <= 1
        /\ g \notin ProperDescendants(groups, {g})

\* the configured roots are roots of the forest
RootsAreTops(groups) == \A r \in Range(groups_change) : Parents(groups, r) = {}

\* C6: on a group forest the managed set computed from the configured roots
\* holds exactly the proper descendants of the roots, and no root when the
\* configured roots are roots of the forest.
C6_ManagedSetIsDescendants ==
    (closure_pc # "idle" /\ IsForest(groups_cache)) =>
        /\ closure_pc = "done"
        /\ Range(changeable_groups) =
               ProperDescendants(groups_cache, Range(groups_change))
        /\ RootsAreTops(groups_cache) =>
               Range(changeable_groups) \cap Range(groups_change) = {}

\* Root b2867 with children A and B, A with child C: the set is {A, B, C}.
C6_Witness ==
    /\ closure_pc = "done"
    /\ GroupChildren(groups_cache, "b2867") = <<"A", "B">>
    /\ GroupChildren(groups_cache, "A") = <<"C">>
    /\ \A g \in {"b27D4", "B", "C"} : GroupChildren(groups_cache, g) = <<>>
    /\ Range(changeable_groups) = {"A", "B", "C"}

\* C7: the closure computation ends with a result for every group table, a
\* table whose children relation has a cycle included: it is never cut off by
\* the interpreter's recursion limit.
C7_ClosureTerminates == closure_pc # "RecursionError"

----------------------------------------------------------------------------
(* Specification of the reconciliation pass: the diff of matched devices *)

MaxRows == 2

\* Device records as fetched, with ids d1, d2, ... in registry order
WithIds(bodies) ==
    [i \in 1..Len(bodies) |->
        [id |-> DeviceIds[i],
         serialNumber |-> bodies[i].serialNumber,
         engineVehicleIdentificationNumber |-> bodies[i].engineVehicleIdentificationNumber,
         vehicleIdentificationNumber |-> bodies[i].vehicleIdentificationNumber,
         name |-> bodies[i].name,
         groups |-> bodies[i].groups]]

\* b2867 has children A and B, A has child C; X is a group outside the roots
ExampleGroups == GroupRecords({<<"b2867", "A">>, <<"b2867", "B">>, <<"A", "C">>})
\* A is its own child
CyclicGroups == GroupRecords({<<"b2867", "A">>, <<"A", "A">>})
SyncGroupFetches == {ExampleGroups, CyclicGroups, <<>>}

\* one registry device that every roster row matches, in any state of name,
\* VIN and membership; its groups are objects or, in one case, a bare id
DiffBodies ==
    [serialNumber : {"G1"}, engineVehicleIdentificationNumber : {"V1"},
     vehicleIdentificationNumber : {"V1", "V2"}, name : {"", "G1"},
     groups : {<<>>, <<ObjRef("A")>>, <<ObjRef("X"), ObjRef("A")>>, <<StrRef("A")>>}]
DiffRegistries == {<<>>} \cup {WithIds(<<b>>) : b \in DiffBodies}

DiffRows ==
    [serial : {"G1"}, id : {"c1"}, vin : {"V1"}, name : {"", "G1"},
     groups : {<<>>, <<"A">>, <<"B", "X">>, <<"A", "X">>}]

NextSync(registries, group_fetches, rosters) ==
    \/ /\ sync_pc = "idle"
       /\ devices_cache = <<>>
       /\ groups_cache = <<>>
       /\ \E devs \in registries, gs \in group_fetches :
              CacheReferenceData([NoReference EXCEPT !.devices = devs, !.groups = gs])
    \/ /\ sync_pc = "idle"
       /\ \E rows \in rosters, devs \in registries, gs \in group_fetches :
              SyncStart(rows, devs, gs)
    \/ ProcessUpdate
    \/ \E result \in MultiCallResults : ExecuteApiCalls(result)

Next == NextSync(DiffRegistries, SyncGroupFetches, SeqsUpTo(DiffRows, MaxRows))

Spec == InitBatch /\ [][Next]_vars

\* what the log says of roster row i: the device it matched and the row
RowDevice(i) == devices[row_log[i].device]
RowMatched(i) == row_log[i].device # 0
RowQueued(i) == row_log[i].outcome = "queued"
\* the position in api_calls of the call queued for row i
CallOfRow(i) == Cardinality({j \in 1..i : RowQueued(j)})

GroupIdSet(refs) == {refs[k].id : k \in 1..Len(refs)}
ManagedSet == Range(changeable_groups)
\* (current groups outside the managed set) union (requested ids inside it)
NewMembership(device, update) ==
    (GroupIdSet(device.groups) \ ManagedSet) \cup (Range(update.groups) \cap ManagedSet)

\* C2: the membership written into each emitted device record is (the
\* device's current groups outside the managed set) union (the row's requested
\* ids inside the managed set).
C2_EmittedMembership ==
    \A i \in 1..Len(row_log) :
        RowQueued(i) =>
            GroupIdSet(api_calls[CallOfRow(i)].entity.groups)
                = NewMembership(RowDevice(i), updates[i])

\* A row asking for B (managed) and X (outside) on a device in X and A is
\* emitted with X kept, B added, A dropped.
C2_Witness ==
    \E i \in 1..Len(row_log) :
        /\ RowQueued(i)
        /\ updates[i].groups = <<"B", "X">>
        /\ GroupIdSet(RowDevice(i).groups) = {"X", "A"}
        /\ ManagedSet = {"A", "B", "C"}
        /\ GroupIdSet(api_calls[CallOfRow(i)].entity.groups) = {"X", "B"}

\* C3: a matched device is queued if and only if its name differs from
\* (row.name, or row.serial when row.name is empty), its VIN differs from the
\* row VIN, or its membership differs from the newly computed membership, be
\* the difference a group added or a managed group removed.  (Stated for the
\* rows whose diff raised no error.)
C3_QueuedIffAnyFlag ==
    \A i \in 1..Len(row_log) :
        (RowMatched(i) /\ row_log[i].outcome # "error") =>
            (RowQueued(i) <=>
                \/ RowDevice(i).name #
                       (IF updates[i].name # "" THEN updates[i].name ELSE updates[i].serial)
                \/ RowDevice(i).vehicleIdentificationNumber # updates[i].vin
                \/ GroupIdSet(RowDevice(i).groups) # NewMembership(RowDevice(i), updates[i]))

\* C4 as stated: a matched device whose name, VIN and memberships equal the
\* row's name, VIN and requested groups is not queued, and a pass that queues
\* nothing issues no update call.
C4_IdenticalNotQueued_AsStated ==
    /\ \A i \in 1..Len(row_log) :
          (/\ RowMatched(i)
           /\ RowDevice(i).name = updates[i].name
           /\ RowDevice(i).vehicleIdentificationNumber = updates[i].vin
           /\ GroupIdSet(RowDevice(i).groups) = Range(updates[i].groups))
              => ~RowQueued(i)
    /\ (sync_pc = "done" /\ api_calls = <<>>) => multi_calls = <<>>

\* C4 amended: a matched device whose name equals the row's name (or the
\* row's serial when the row's name is empty), whose VIN equals the row's VIN
\* and whose memberships equal the row's requested groups is not queued, and a
\* pass that queues nothing issues no update call.
C4_IdenticalNotQueued ==
    /\ \A i \in 1..Len(row_log) :
          (/\ RowMatched(i)
           /\ RowDevice(i).name =
                  (IF updates[i].name # "" THEN updates[i].name ELSE updates[i].serial)
           /\ RowDevice(i).vehicleIdentificationNumber = updates[i].vin
           /\ GroupIdSet(RowDevice(i).groups) = Range(updates[i].groups))
              => ~RowQueued(i)
    /\ (sync_pc = "done" /\ api_calls = <<>>) => multi_calls = <<>>

\* A pass over a device in the managed group A and the outside group X, whose
\* row has the same name, VIN and groups, ends without a call.
C4_Witness ==
    /\ sync_pc = "done"
    /\ Len(row_log) = 1
    /\ row_log[1].outcome = "no_update"
    /\ RowDevice(1).name = "G1"
    /\ updates[1].name = "G1"
    /\ RowDevice(1).vehicleIdentificationNumber = updates[1].vin
    /\ GroupIdSet(RowDevice(1).groups) = {"X", "A"}
    /\ Range(updates[1].groups) = {"X", "A"}
    /\ ManagedSet = {"A", "B", "C"}
    /\ multi_calls = <<>>

\* C5: a pass issues the batch update call at most once, only after every
\* roster row was processed, with exactly the queued devices; whatever the
\* call's result (an error, fewer results than devices) no second call follows.
C5_SingleBatchCall ==
    /\ Len(multi_calls) <= 1
    /\ multi_calls # <<>> =>
          /\ sync_pc = "done"
          /\ Len(row_log) = Len(updates)
          /\ multi_calls[1] = api_calls
          /\ Len(api_calls) = Cardinality({i \in 1..Len(row_log) : RowQueued(i)})
          /\ \A i \in 1..Len(row_log) :
                RowQueued(i) => api_calls[CallOfRow(i)].entity.id = RowDevice(i).id

\* The call failed after a pass that queued one row of two, and the pass is
\* over with that one call.
C5_Witness ==
    /\ sync_pc = "done"
    /\ multi_result \in {"raised", "fewer"}
    /\ Len(multi_calls) = 1
    /\ Len(updates) = 2
    /\ Len(api_calls) = 1

----------------------------------------------------------------------------
(* Specification of the reconciliation pass: matching rows to devices *)

MaxDevices == 2

\* registry devices that differ in serial number and engine VIN only, and
\* roster rows that differ in serial and VIN only
MatchBodies ==
    [serialNumber : {"G1", "G2"}, engineVehicleIdentificationNumber : {"V1", "V2"},
     vehicleIdentificationNumber : {"V1"}, name : {"G1"}, groups : {<<ObjRef("A")>>}]
MatchRegistries == {WithIds(bodies) : bodies \in SeqsUpTo(MatchBodies, MaxDevices)}

MatchRows ==
    [serial : {"G1", "G2"}, id : {"c1"}, vin : {"V1", "V2"}, name : {"n2"},
     groups : {<<"A">>}]

NextMatch == NextSync(MatchRegistries, {ExampleGroups}, SeqsUpTo(MatchRows, MaxRows))

SpecMatch == InitBatch /\ [][NextMatch]_vars

\* serial number and engine VIN of device j equal those of row i
BothEqual(j, i) ==
    /\ devices[j].serialNumber = updates[i].serial
    /\ devices[j].engineVehicleIdentificationNumber = updates[i].vin

\* C8: the device diffed for a roster row is the first device, in registry
\* order, whose serial number and engine VIN both equal the row's; a row with
\* no such device queues nothing, and the rows after it are still processed.
C8_FirstMatchingDevice ==
    /\ \A i \in 1..Len(row_log) :
          LET m == row_log[i].device
          IN  /\ m = 0 <=> ~\E j \in 1..Len(devices) : BothEqual(j, i)
              /\ m # 0 => (BothEqual(m, i) /\ \A j \in 1..(m - 1) : ~BothEqual(j, i))
              /\ m = 0 => ~RowQueued(i)
    /\ Len(api_calls) = Cardinality({i \in 1..Len(row_log) : RowQueued(i)})
    /\ \A i \in 1..Len(row_log) :
          RowQueued(i) => api_calls[CallOfRow(i)].entity.id = RowDevice(i).id
    /\ (sync_pc = "done" /\ closure_pc = "done") => Len(row_log) = Len(updates)

\* The first row matches no device (the only device with its serial has
\* another engine VIN), the second row matches two devices and the first of
\* them is the one queued.
C8_Witness ==
    /\ sync_pc = "done"
    /\ Len(row_log) = 2
    /\ Len(devices) = 2
    /\ Len(api_calls) = 1
    /\ row_log[1].outcome = "no_match"
    /\ \E j \in 1..Len(devices) : devices[j].serialNumber = updates[1].serial
    /\ row_log[2] = [device |-> 1, outcome |-> "queued"]
    /\ BothEqual(2, 2)
    /\ api_calls[1].entity.id = "d1"

----------------------------------------------------------------------------
(* Specification of the roster parser: parse_csv_updates on any file *)

MaxLines == 3

\* two serial numbers, a 12-character header word and a short word
SerialA == <<"G", "9", "0", "0", "0", "0", "0", "0", "0", "0", "0", "1">>
SerialB == <<"G", "9", "0", "0", "0", "0", "0", "0", "0", "0", "0", "2">>
HeaderWord == <<"S", "e", "r", "i", "a", "l", "N", "u", "m", "b", "e", "r">>
ShortWord == <<"s", "n">>
FirstFields == {SerialA, SerialB, HeaderWord, ShortWord}

\* the fields after the first: none, four (two ways), five
RestFields ==
    { <<>>,
      << <<" ", "c", "1", " ">>, <<"V", "1">>, <<"n", "1">>, <<"A", "|", "B">> >>,
      << <<"c", "2">>, <<"V", "2">>, <<>>, <<" ", "|", "A", "|", " ">> >>,
      << <<"c", "3">>, <<"V", "3">>, <<"n", "3">>, <<"A">>, <<"x">> >> }

RECURSIVE Join(_, _)
Join(fields, sep) ==
    IF fields = <<>> THEN <<>>
    ELSE IF Len(fields) = 1 THEN fields[1]
    ELSE fields[1] \o <<sep>> \o Join(Tail(fields), sep)

\* the lines readlines() can return: comma-joined fields and the line end
CsvLines ==
    {Join(<<first>> \o rest, ",") \o <<"\n">> : first \in FirstFields, rest \in RestFields}
        \cup {<<"\n">>}

InitCsvSpec ==
    /\ InitIdle
    /\ InitCsv(SeqsUpTo(CsvLines, MaxLines))
    /\ InitPip({[lat |-> 0, lon |-> 0]}, {<<>>})
    /\ InitRest

NextCsv == ParseCsvUpdates

SpecCsv == InitCsvSpec /\ [][NextCsv]_vars

CommaCount(line) == Cardinality({k \in 1..Len(line) : line[k] = ","})
\* the position of the j-th comma of a line; 0 before the line, Len + 1 after
CommaAt(line, j) ==
    IF j = 0 THEN 0
    ELSE IF j > CommaCount(line) THEN Len(line) + 1
    ELSE CHOOSE k \in 1..Len(line) :
             line[k] = "," /\ Cardinality({m \in 1..k : line[m] = ","}) = j
\* the text between the (j-1)-th and the j-th comma
RawField(line, j) == SubSeq(line, CommaAt(line, j - 1) + 1, CommaAt(line, j) - 1)

\* the data lines that hold exactly four commas, in file order
FiveFieldLines == SelectSeq(DataLines(csv_file), LAMBDA line : CommaCount(line) = 4)

\* C9: the updates returned are, in file order, exactly the data lines that
\* split on ',' into five fields; every other line is skipped and the lines
\* after it are still parsed.
C9_FiveFieldLinesParsed ==
    csv_pc = "done" =>
        /\ Len(csv_updates) = Len(FiveFieldLines)
        /\ \A k \in 1..Len(csv_updates) :
              /\ csv_updates[k].serial = Strip(RawField(FiveFieldLines[k], 1))
              /\ csv_updates[k].id = Strip(RawField(FiveFieldLines[k], 2))
              /\ csv_updates[k].vin = Strip(RawField(FiveFieldLines[k], 3))
              /\ csv_updates[k].name = Strip(RawField(FiveFieldLines[k], 4))

\* A five-field line, a six-field line and another five-field line: the
\* first and the third are returned, in that order.
C9_Witness ==
    /\ csv_pc = "done"
    /\ Len(csv_file) = 3
    /\ CommaCount(csv_file[1]) = 4
    /\ CommaCount(csv_file[2]) = 5
    /\ CommaCount(csv_file[3]) = 4
    /\ Len(csv_updates) = 2
    /\ csv_updates[1].serial = SerialB
    /\ csv_updates[2].serial = SerialA

----------------------------------------------------------------------------
(* Specification of the geofence test: point_in_polygon on simple polygons *)

GridMax == 15

Pt(x, y) == [x |-> x, y |-> y]

\* Simple polygons, each with a triangulation that says what its inside is:
\* the square of the spec, a triangle, a diamond (vertices level with other
\* vertices), an L (concave, axis-parallel edges) and a chevron (a reflex vertex)
Shapes ==
    { [points |-> <<Pt(0, 0), Pt(0, 10), Pt(10, 10), Pt(10, 0)>>,
       triangles |-> { <<Pt(0, 0), Pt(0, 10), Pt(10, 10)>>,
                       <<Pt(0, 0), Pt(10, 10), Pt(10, 0)>> }],
      [points |-> <<Pt(0, 0), Pt(4, 0), Pt(2, 4)>>,
       triangles |-> { <<Pt(0, 0), Pt(4, 0), Pt(2, 4)>> }],
      [points |-> <<Pt(2, 0), Pt(4, 2), Pt(2, 4), Pt(0, 2)>>,
       triangles |-> { <<Pt(2, 0), Pt(4, 2), Pt(2, 4)>>,
                       <<Pt(2, 0), Pt(2, 4), Pt(0, 2)>> }],
      [points |-> <<Pt(0, 0), Pt(4, 0), Pt(4, 2), Pt(2, 2), Pt(2, 4), Pt(0, 4)>>,
       triangles |-> { <<Pt(0, 0), Pt(4, 0), Pt(4, 2)>>, <<Pt(0, 0), Pt(4, 2), Pt(0, 2)>>,
                       <<Pt(0, 2), Pt(2, 2), Pt(2, 4)>>, <<Pt(0, 2), Pt(2, 4), Pt(0, 4)>> }],
      [points |-> <<Pt(0, 0), Pt(2, 1), Pt(4, 0), Pt(2, 4)>>,
       triangles |-> { <<Pt(0, 0), Pt(2, 1), Pt(2, 4)>>,
                       <<Pt(2, 1), Pt(4, 0), Pt(2, 4)>> }] }

\* the vertex sequence started at vertex k, and walked the other way round
Rotate(points, k) == [i \in 1..Len(points) |-> points[((i + k - 2) % Len(points)) + 1]]
Reverse(points) == [i \in 1..Len(points) |-> points[Len(points) + 1 - i]]

Polygons ==
    UNION { {Rotate(sh.points, k) : k \in 1..Len(sh.points)}
            \cup {Reverse(Rotate(sh.points, k)) : k \in 1..Len(sh.points)} : sh \in Shapes }
\* zone points that make no polygon
Degenerate == {<<>>, <<Pt(0, 0), Pt(4, 4)>>}

GridPoints == [lat : -1..GridMax, lon : -1..GridMax]

InitPipSpec ==
    /\ InitIdle
    /\ InitCsv({<<>>})
    /\ InitPip(GridPoints, Polygons \cup Degenerate)
    /\ InitRest

NextPip == PointInPolygonCall

SpecPip == InitPipSpec /\ [][NextPip]_vars

Cross(o, a, b) == (a.x - o.x) * (b.y - o.y) - (a.y - o.y) * (b.x - o.x)

OnSegment(p, a, b) ==
    /\ Cross(a, b, p) = 0
    /\ Min(a.x, b.x) <= p.x /\ p.x <= Max(a.x, b.x)
    /\ Min(a.y, b.y) <= p.y /\ p.y <= Max(a.y, b.y)

OnBoundary(p, points) ==
    \E i \in 1..Len(points) : OnSegment(p, points[i], points[(i % Len(points)) + 1])

InTriangle(p, t) ==
    LET d1 == Cross(t[1], t[2], p)
        d2 == Cross(t[2], t[3], p)
        d3 == Cross(t[3], t[1], p)
    IN  (d1 >= 0 /\ d2 >= 0 /\ d3 >= 0) \/ (d1 <= 0 /\ d2 <= 0 /\ d3 <= 0)

TrianglesOf(points) ==
    (CHOOSE sh \in Shapes : Range(sh.points) = Range(points)).triangles

PipXY == Pt(pip_point.lon, pip_point.lat)
StrictlyInside ==
    /\ ~OnBoundary(PipXY, pip_polygon)
    /\ \E t \in TrianglesOf(pip_polygon) : InTriangle(PipXY, t)
StrictlyOutside ==
    /\ ~OnBoundary(PipXY, pip_polygon)
    /\ ~\E t \in TrianglesOf(pip_polygon) : InTriangle(PipXY, t)

\* C10: point_in_polygon returns true for every point strictly inside and
\* false for every point strictly outside a simple polygon, whichever vertex
\* the vertex sequence starts at; for the square (0,0),(0,10),(10,10),(10,0)
\* it returns true for (5,5) and false for (15,15).
C10_EvenOddRule ==
    (pip_pc = "done" /\ pip_polygon \in Polygons) =>
        /\ StrictlyInside => pip_result
        /\ StrictlyOutside => ~pip_result

\* (5,5) is found inside the square given from its vertex (10,10) on.
C10_Witness ==
    /\ pip_pc = "done"
    /\ pip_polygon = <<Pt(10, 10), Pt(10, 0), Pt(0, 0), Pt(0, 10)>>
    /\ pip_point = [lat |-> 5, lon |-> 5]
    /\ pip_result

\* the edge examined at iteration i: from vertex i to vertex (i mod n) + 1
EdgeFrom(i) == pip_polygon[i]
EdgeTo(i) == pip_polygon[(i % Len(pip_polygon)) + 1]
Toggled == Range(pip_toggles)

\* vertex v lies on the ray's line and the boundary passes through it: its two
\* neighbours lie strictly on opposite sides of the line
PrevVertex(v) == pip_polygon[((v + Len(pip_polygon) - 2) % Len(pip_polygon)) + 1]
NextVertex(v) == pip_polygon[(v % Len(pip_polygon)) + 1]
RayThroughVertex(v) ==
    /\ pip_polygon[v].y = pip_point.lat
    /\ pip_point.lon < pip_polygon[v].x
    /\ \/ PrevVertex(v).y < pip_point.lat /\ pip_point.lat < NextVertex(v).y
       \/ NextVertex(v).y < pip_point.lat /\ pip_point.lat < PrevVertex(v).y
\* the iterations that examine the edge into v and the edge out of v
EdgeInto(v) == ((v + Len(pip_polygon) - 2) % Len(pip_polygon)) + 1
EdgeOutOf(v) == v

\* C11 as stated: an edge is counted only when min(p1y,p2y) <= y < max(p1y,p2y)
C11_LowerInclusiveBand_AsStated ==
    (pip_pc = "done" /\ pip_polygon \in Polygons) =>
        \A i \in Toggled :
            /\ Min(EdgeFrom(i).y, EdgeTo(i).y) <= pip_point.lat
            /\ pip_point.lat < Max(EdgeFrom(i).y, EdgeTo(i).y)

\* C11: an edge is counted for a crossing only when
\* min(p1y,p2y) < y <= max(p1y,p2y) (strict lower bound, inclusive upper
\* bound); hence a horizontal edge is never counted, and of the two edges that
\* share a vertex the ray passes through exactly one is counted; the result is
\* the parity of the edges counted.
C11_HalfOpenBand ==
    (pip_pc = "done" /\ pip_polygon \in Polygons) =>
        /\ \A i \in Toggled :
            /\ Min(EdgeFrom(i).y, EdgeTo(i).y) < pip_point.lat
            /\ pip_point.lat <= Max(EdgeFrom(i).y, EdgeTo(i).y)
            /\ EdgeFrom(i).y # EdgeTo(i).y
        /\ \A v \in 1..Len(pip_polygon) :
            RayThroughVertex(v) => ((EdgeInto(v) \in Toggled) # (EdgeOutOf(v) \in Toggled))
        /\ pip_result = (Len(pip_toggles) % 2 = 1)

\* From (-1,2) the ray passes through the diamond's vertices (0,2) and (4,2):
\* one edge is counted at each and the point is found outside.
C11_Witness ==
    /\ pip_pc = "done"
    /\ pip_polygon = <<Pt(2, 0), Pt(4, 2), Pt(2, 4), Pt(0, 2)>>
    /\ pip_point = [lat |-> 2, lon |-> -1]
    /\ RayThroughVertex(2) /\ RayThroughVertex(4)
    /\ Len(pip_toggles) = 2
    /\ ~pip_result

----------------------------------------------------------------------------
(* Specification of the geofence index: get_zones_for_location on any zone *)
(* table and any location                                                   *)

MaxZones == 3

Square(lo, hi) == <<Pt(lo, lo), Pt(lo, hi), Pt(hi, hi), Pt(hi, lo)>>

\* two overlapping squares, a zone of two vertices, a zone without a name and
\* a zone without points
ZonePool ==
    { [id |-> "z1", name |-> <<"A">>, points |-> Square(-4, 4)],
      [id |-> "z2", name |-> <<"B">>, points |-> Square(-2, 6)],
      [id |-> "z3", name |-> <<"C">>, points |-> <<Pt(-4, -4), Pt(4, 4)>>],
      [id |-> "z4", name |-> <<>>, points |-> Square(-4, 4)],
      [id |-> "z5", name |-> <<"E">>, points |-> <<>>] }

\* coordinates off every zone boundary; 0 lies inside both squares
Coordinates == {None} \cup {Num(v) : v \in {-3, 0, 1, 5, 7}}

InitZoneSpec ==
    /\ InitIdle
    /\ InitCsv({<<>>})
    /\ InitPip({[lat |-> 0, lon |-> 0]}, {<<>>})
    /\ InitZone
    /\ InitRun
    /\ InitDuration({NoDuration})
    /\ InitLookup
    /\ InitPass({<<>>}, {<<>>})

NextZones ==
    \/ /\ zones_cache = <<>>
       /\ zone_pc = "idle"
       /\ \E zones \in SeqsUpTo(ZonePool, MaxZones) :
              CacheReferenceData([NoReference EXCEPT !.zones = zones])
    \/ /\ zone_pc = "idle"
       /\ \E latitude \in Coordinates, longitude \in Coordinates :
              GetZonesForLocation(latitude, longitude)

SpecZones == InitZoneSpec /\ [][NextZones]_vars

MinOf(S) == CHOOSE m \in S : \A s \in S : m <= s
MaxOf(S) == CHOOSE m \in S : \A s \in S : m >= s

\* containment in an axis-parallel rectangle given by at least 3 vertices
StrictlyInBox(latitude, longitude, points) ==
    /\ Len(points) >= 3
    /\ LET xs == {points[i].x : i \in 1..Len(points)}
           ys == {points[i].y : i \in 1..Len(points)}
       IN  /\ MinOf(xs) < longitude.v /\ longitude.v < MaxOf(xs)
           /\ MinOf(ys) < latitude.v /\ latitude.v < MaxOf(ys)

ContainingZones ==
    SelectSeq(zones_cache,
              LAMBDA z : StrictlyInBox(zone_latitude, zone_longitude, z.points) /\ z.name # <<>>)
ContainingNames == [i \in 1..Len(ContainingZones) |-> ContainingZones[i].name]

\* the input the specification short-circuits: (0,0) or a missing coordinate
IsOriginOrMissing ==
    \/ ~zone_latitude.present
    \/ ~zone_longitude.present
    \/ zone_latitude.v = 0 /\ zone_longitude.v = 0

\* C12: get_zones_for_location returns the names of all zones whose polygon
\* contains the point, overlapping zones all reported, in the iteration order
\* of the zone table; a zone with fewer than 3 vertices never appears.
C12_AllContainingZones ==
    (zone_pc = "done" /\ ~IsOriginOrMissing) => zone_result = JoinNames(ContainingNames)

PolygonZoneIds == {z.id : z \in {zz \in Range(zones_cache) : Len(zz.points) >= 3}}

\* C13: for (0,0) or a missing coordinate no zone is returned and no polygon
\* is evaluated; for every other point, one with exactly one coordinate equal
\* to 0 included, every polygon of the zone table is evaluated.
C13_ShortCircuitOnlyOrigin ==
    zone_pc = "done" =>
        /\ IsOriginOrMissing => (zone_result = <<>> /\ zone_evaluated = <<>>)
        /\ ~IsOriginOrMissing => PolygonZoneIds \subseteq Range(zone_evaluated)

----------------------------------------------------------------------------
(* Specification of the scheduled runs: every stage of generate_all_reports *)
(* on reference fetches that may fail and telemetry whose references come   *)
(* in either form                                                           *)

MaxRuns == 2

\* what the server holds: two devices (the groups of d2 are bare ids), the
\* example group table, a user, a zone, a rule, a diagnostic and a controller
RunReference ==
    [devices |-> <<[id |-> "d1", serialNumber |-> "G1",
                    engineVehicleIdentificationNumber |-> "V1",
                    vehicleIdentificationNumber |-> "V1", name |-> "Truck1",
                    groups |-> <<ObjRef("A")>>],
                   [id |-> "d2", serialNumber |-> "G2",
                    engineVehicleIdentificationNumber |-> "V2",
                    vehicleIdentificationNumber |-> "V2", name |-> "Truck2",
                    groups |-> <<StrRef("B")>>]>>,
     groups |-> ExampleGroups,
     users |-> <<[id |-> "u1", keys |-> <<[serialNumber |-> "K1"]>>, employeeNo |-> "E1"]>>,
     zones |-> <<[id |-> "z1", name |-> <<"A">>, points |-> Square(-4, 4)]>>,
     rules |-> <<[id |-> "r1", name |-> "Speeding"]>>,
     diagnostics |-> <<[id |-> "g1", name |-> "Low oil"]>>,
     controllers |-> <<[id |-> "c1", name |-> "Engine"]>>]

\* no Get call fails, one fails, or all fail
RunFailures ==
    {{}, Range(ReferenceTypes)} \cup {{ReferenceTypes[i]} : i \in 1..Len(ReferenceTypes)}

\* the hour's telemetry, every reference an object
ObjWindow ==
    [trips |-> <<[id |-> "t1", device |-> ObjRef("d1"), driver |-> ObjRef("u1"), stop |-> T1],
                 [id |-> "t2", device |-> ObjRef("d2"), stop |-> T2]>>,
     exceptions |-> <<[id |-> "e1", device |-> ObjRef("d1"), rule |-> ObjRef("r1"),
                       driver |-> ObjRef("u1")]>>,
     faults |-> <<[id |-> "f1", device |-> ObjRef("d1"), diagnostic |-> ObjRef("g1"),
                   controller |-> ObjRef("c1"), dateTime |-> T2]>>,
     status |-> <<[device |-> ObjRef("d1"), driver |-> ObjRef("u1")]>>,
     logs |-> <<[id |-> "l1", device |-> ObjRef("d1"), dateTime |-> T1]>>]

\* the places of a window that hold a reference: <<list, position, key>>
ReferenceSites ==
    {<<"trips", 1, "device">>, <<"trips", 1, "driver">>,
     <<"exceptions", 1, "device">>, <<"exceptions", 1, "rule">>, <<"exceptions", 1, "driver">>,
     <<"faults", 1, "device">>, <<"faults", 1, "diagnostic">>, <<"faults", 1, "controller">>,
     <<"status", 1, "device">>, <<"status", 1, "driver">>,
     <<"logs", 1, "device">>}

\* the same telemetry with the reference at one site sent as a bare id string
BareAt(site) == [ObjWindow EXCEPT ![site[1]][site[2]][site[3]] = StrRef(@.id)]

RunWindows == {NoWindow, ObjWindow} \cup {BareAt(site) : site \in ReferenceSites}

RunOdometer ==
    {<<>>,
     <<[device |-> ObjRef("d1"), dateTime |-> T2], [device |-> ObjRef("d1"), dateTime |-> T1]>>,
     <<[device |-> ObjRef("d2"), dateTime |-> T3]>>,
     <<[device |-> StrRef("d1"), dateTime |-> T1]>>}
RunEngineHours == {<<>>, <<[device |-> ObjRef("d1"), dateTime |-> T3]>>}

\* the roster the download brings: no valid row, or a row for d1
RunRosters ==
    {<<>>, <<[serial |-> "G1", id |-> "c1", vin |-> "V1", name |-> "Truck1",
              groups |-> <<"B">>]>>}

InitRunSpec ==
    /\ InitIdle
    /\ InitCsv({<<>>})
    /\ InitPip({[lat |-> 0, lon |-> 0]}, {<<>>})
    /\ InitZone
    /\ InitRun
    /\ InitDuration({NoDuration})
    /\ InitLookup
    /\ InitPass({<<>>}, {<<>>})

NextRun ==
    \/ /\ run_count < MaxRuns
       /\ \E auth_ok \in BOOLEAN : RunStart(auth_ok)
    \/ /\ run_pc = "reference"
       /\ \E failed \in RunFailures : RunCacheReference(RunReference, failed)
    \/ /\ run_pc = "batch"
       /\ \E window \in RunWindows, odometer_data \in RunOdometer,
             engine_hours_data \in RunEngineHours :
              RunCacheBatch(window, odometer_data, engine_hours_data)
    \/ RunGenerateReports
    \/ /\ run_pc = "upload"
       /\ \E connected \in BOOLEAN, failing \in {{}, {"Trips_History_Report"}} :
              RunSaveReports(connected, failing)
    \/ /\ run_pc = "sync"
       /\ \E downloaded \in BOOLEAN : RunDownload(downloaded)
    \/ /\ run_pc = "reconcile"
       /\ sync_pc = "idle"
       /\ \E rows \in RunRosters, devs \in {<<>>, RunReference.devices},
             gs \in {<<>>, RunReference.groups} :
              SyncStart(rows, devs, gs)
    \/ /\ run_pc = "reconcile"
       /\ ProcessUpdate
    \/ /\ run_pc = "reconcile"
       /\ \E result \in MultiCallResults : ExecuteApiCalls(result)
    \/ RunEnd

SpecRun == InitRunSpec /\ [][NextRun]_vars

\* the lookup table of an entity type, as the sequence of its records
TableOf(type) ==
    CASE type = "devices" -> devices_cache
      [] type = "groups" -> [i \in 1..Len(RunReference.groups) |->
                                GroupsGet(RunReference.groups[i].id)]
      [] type = "users" -> users_cache
      [] type = "zones" -> zones_cache
      [] type = "rules" -> rules_cache
      [] type = "diagnostics" -> diagnostics_cache
      [] type = "controllers" -> controllers_cache

ReferenceLoaded ==
    authenticated /\ run_pc \in {"batch", "reports", "upload", "sync", "reconcile", "done", "aborted"}
ReportsBuilt == authenticated /\ run_pc \in {"upload", "sync", "reconcile", "done"}
Failed(type) == type \in run_fetched.failed

\* the telemetry of this run holds a bare id string at a place the code reads
\* with .get() (the signal readings, a trip's, exception's or fault's device, an
\* exception's rule, a fault's diagnostic or controller, a log record's device)
BareReading(readings) ==
    \E i \in 1..Len(readings) : readings[i].device.form = "str"
BareIn(records, key) ==
    \E i \in 1..Len(records) : Field(records[i], key, NoRef).form = "str"
TelemetryUnreadable ==
    \/ BareReading(batch_fetched.odometer) \/ BareReading(batch_fetched.engine_hours)
    \/ /\ run_fetched.window # <<>>
       /\ LET w == run_fetched.window
          IN  \/ BareIn(w.trips, "device")
              \/ BareIn(w.exceptions, "device") \/ BareIn(w.exceptions, "rule")
              \/ (w.exceptions # <<>> /\ BareIn(w.logs, "device"))
              \/ BareIn(w.faults, "device") \/ BareIn(w.faults, "diagnostic")
              \/ BareIn(w.faults, "controller")

\* C14: when the fetch of a reference entity type fails, that type's lookup
\* table is empty and the other types' tables hold the records fetched; the
\* lookups against an empty table (device name, group names, user info, zone
\* names) give empty strings; and the run is not stopped by it: it is aborted
\* only over telemetry it could not read with every table loaded either, and
\* otherwise builds one row per record in each of the four reports.
C14_ReferenceFailureDegrades ==
    ReferenceLoaded =>
        /\ \A i \in 1..Len(ReferenceTypes) :
              LET type == ReferenceTypes[i]
              IN  IF Failed(type) THEN \A k \in 1..Len(TableOf(type)) : TableOf(type)[k] = <<>>
                  ELSE TableOf(type) = RunReference[type]
        /\ Failed("devices") =>
              /\ devices_cache = <<>>
              /\ GetDeviceName("d1") = "" /\ GetDeviceGroups("d1") = ""
        /\ Failed("groups") => (groups_cache = <<>> /\ GetDeviceGroups("d1") = "")
        /\ Failed("users") => GetUserInfo("u1") = <<"", "">>
        /\ Failed("zones") => GetZoneNames(<<"z1">>) = <<>>
        /\ run_pc = "aborted" => TelemetryUnreadable
        /\ ReportsBuilt =>
              /\ \A j \in 1..Len(ReportKinds) :
                    Len(reports[ReportKinds[j]]) = Len(RecordsOf(ReportKinds[j]))
              /\ Failed("devices") =>
                    \A j \in 1..Len(ReportKinds) :
                        \A k \in 1..Len(reports[ReportKinds[j]]) :
                            reports[ReportKinds[j]][k].DeviceName = ""

\* The Device fetch failed: the users are loaded, both trips have a row with
\* an empty device name and the run went on to its end.
C14_Witness ==
    /\ run_pc = "done"
    /\ Failed("devices")
    /\ devices_cache = <<>>
    /\ users_cache = RunReference.users
    /\ Len(reports["Trips_History_Report"]) = 2
    /\ reports["Trips_History_Report"][1].DeviceName = ""
    /\ reports["Trips_History_Report"][1].DriverSerialNumber = "K1"
    /\ "download" \in Range(run_log)

AllCachesEmpty ==
    /\ devices_cache = <<>> /\ groups_cache = <<>> /\ users_cache = <<>>
    /\ zones_cache = <<>> /\ rules_cache = <<>> /\ diagnostics_cache = <<>>
    /\ controllers_cache = <<>>
    /\ trips_cache = <<>> /\ exceptions_cache = <<>> /\ fault_data_cache = <<>>
    /\ device_status_info_cache = <<>> /\ log_records_cache = <<>>
    /\ odometer_data_cache = <<>> /\ engine_hours_data_cache = <<>>

\* C15: when authentication fails at the start of a run, the run ends there:
\* no reference or telemetry fetch, no report built, no upload, no roster
\* download and no device update call.
C15_AuthFailureEndsRun ==
    (run_count > 0 /\ ~authenticated) =>
        /\ run_pc = "done"
        /\ run_log = <<"authenticate">>
        /\ AllCachesEmpty
        /\ reports = <<>>
        /\ uploaded = <<>>
        /\ sync_pc = "idle"
        /\ multi_calls = <<>>

\* The second run fails to authenticate and ends with nothing done.
C15_Witness ==
    /\ run_count = 2
    /\ ~authenticated
    /\ run_pc = "done"
    /\ run_log = <<"authenticate">>

\* C16: an error raised while building the row of one telemetry record never
\* aborts the run: once the telemetry is cached the run goes on to its end,
\* with a row for every other record, the upload and the reconciliation pass.
C16_RowErrorsNeverAbort ==
    (authenticated /\ batch_pc = "done") =>
        /\ run_pc # "aborted"
        /\ run_pc = "done" =>
              /\ reports # <<>>
              /\ "connect" \in Range(run_log)
              /\ "download" \in Range(run_log)

\* the id a reference names, in either form
RefId(ref) == ref.id

\* C17: every read of a nested reference gives the id the reference names,
\* bare id string or object alike, and none raises: no run is aborted and no
\* roster row fails over a reference, and every row built carries the id of its
\* record's device and the user information of its record's driver.
C17_EitherFormSameId ==
    /\ run_pc # "aborted"
    /\ \A i \in 1..Len(row_log) : row_log[i].outcome # "error"
    /\ ReportsBuilt =>
          \A j \in 1..3 :
              LET kind == ReportKinds[j]
              IN  \A k \in 1..Len(reports[kind]) :
                      /\ reports[kind][k].DeviceId = RefId(Field(RecordsOf(kind)[k], "device", NoRef))
                      /\ reports[kind][k].DriverSerialNumber =
                             GetUserInfo(RefId(Field(RecordsOf(kind)[k], "driver", NoRef)))[1]

\* C20: every run starts from empty caches and, at every point of any
\* sequence of runs, the caches hold only what the current run's fetches
\* returned: the latest-value caches hold readings of this run's two signal
\* fetches, the telemetry caches this run's window, the reference tables this
\* run's records.
C20_RunsStartEmpty ==
    /\ run_pc = "reference" => AllCachesEmpty
    /\ \A d \in DOMAIN odometer_data_cache :
          odometer_data_cache[d] \in Range(batch_fetched.odometer)
    /\ \A d \in DOMAIN engine_hours_data_cache :
          engine_hours_data_cache[d] \in Range(batch_fetched.engine_hours)
    /\ IF run_fetched.window = <<>>
       THEN /\ trips_cache = <<>> /\ exceptions_cache = <<>> /\ fault_data_cache = <<>>
            /\ device_status_info_cache = <<>> /\ log_records_cache = <<>>
       ELSE /\ trips_cache = run_fetched.window.trips
            /\ exceptions_cache = run_fetched.window.exceptions
            /\ fault_data_cache = run_fetched.window.faults
            /\ device_status_info_cache = run_fetched.window.status
            /\ log_records_cache = run_fetched.window.logs
    /\ IF run_fetched.reference = <<>>
       THEN devices_cache = <<>> /\ groups_cache = <<>> /\ users_cache = <<>>
       ELSE /\ Range(devices_cache) \subseteq Range(run_fetched.reference.devices)
            /\ Range(users_cache) \subseteq Range(run_fetched.reference.users)
            /\ \A g \in DOMAIN groups_cache :
                  groups_cache[g] \in Range(run_fetched.reference.groups)

\* The second run has cached the one odometer reading its fetch returned.
C20_Witness ==
    /\ run_count = 2
    /\ batch_pc = "done"
    /\ Len(batch_fetched.odometer) = 1
    /\ DOMAIN odometer_data_cache = {"d2"}
    /\ trips_cache = <<>>

----------------------------------------------------------------------------
(* Specification of the duration normalisation: format_duration on          *)
(* millisecond counts, clock values and texts, well formed or not           *)

MaxDays == 2        \* day counts 0..MaxDays
MaxHours == 25      \* millisecond counts of 0..MaxHours whole hours

MillisecondCounts ==
    {h * 3600000 + m * 60000 + r :
        h \in 0..MaxHours, m \in {0, 59}, r \in {0, 1, 999, 1000, 59999}}

DayPrefixes ==
    {<<>>, <<".">>, <<"a", ".">>, <<"1", ".", "5", ".">>}
        \cup {Str(d) \o <<".">> : d \in 0..MaxDays}
HourTexts == {Pad2(h) : h \in {0, 2, 23}} \cup {<<"2">>, <<"x">>, <<>>}
MinuteTexts == {Pad2(m) : m \in {0, 30, 59}} \cup {<<"b">>}
SecondSuffixes ==
    {<<>>, <<":">>, <<":", "z", "z">>, <<":", "1", "5", ".", "5">>}
        \cup {<<":">> \o Pad2(s) : s \in {0, 15, 59}}

ClockTexts ==
    {d \o h \o <<":">> \o m \o s :
        d \in DayPrefixes, h \in HourTexts, m \in MinuteTexts, s \in SecondSuffixes}

PlainTexts ==
    { <<>>, <<"a", "b", "x">>, <<".">>, <<"-">>, <<":">>, <<" ">>,
      <<"1", "2", "a">>, <<"1", ".", "5">>, <<"1", ".", "2", ".", "3">>,
      <<"-", "5">>, <<" ", "5", "0", "0", "0", " ">>,
      <<"\"", "0", "1", ":", "0", "0", ":", "0", "0", "\"">>,
      Str(0), Str(3600000) }

DurationInputs ==
    {NoDuration}
        \cup {NumDuration(n) : n \in MillisecondCounts}
        \cup {TextDuration(t) : t \in ClockTexts \cup PlainTexts}
        \cup {ClockDuration(h, m, s) : h \in {0, 2, 23}, m \in {0, 30}, s \in {0, 15}}

InitDurationSpec ==
    /\ InitIdle
    /\ InitCsv({<<>>})
    /\ InitPip({[lat |-> 0, lon |-> 0]}, {<<>>})
    /\ InitZone
    /\ InitRun
    /\ InitDuration(DurationInputs)
    /\ InitLookup
    /\ InitPass({<<>>}, {<<>>})

NextDuration == FormatDuration

SpecDuration == InitDurationSpec /\ [][NextDuration]_vars

\* a text H..H:MM:SS of at least two hour digits, minutes and seconds under 60
IsHMS(t) ==
    /\ Len(t) >= 8
    /\ t[Len(t) - 2] = ":" /\ t[Len(t) - 5] = ":"
    /\ IsDigit(SubSeq(t, 1, Len(t) - 6))
    /\ IsDigit(SubSeq(t, Len(t) - 4, Len(t) - 3))
    /\ IsDigit(SubSeq(t, Len(t) - 1, Len(t)))
    /\ DigitsValue(SubSeq(t, Len(t) - 4, Len(t) - 3)) < 60
    /\ DigitsValue(SubSeq(t, Len(t) - 1, Len(t))) < 60

\* the seconds a text H..H:MM:SS stands for
SecondsOf(t) ==
    DigitsValue(SubSeq(t, 1, Len(t) - 6)) * 3600
        + DigitsValue(SubSeq(t, Len(t) - 4, Len(t) - 3)) * 60
        + DigitsValue(SubSeq(t, Len(t) - 1, Len(t)))

ShowsTotal(t, total) == IsHMS(t) /\ SecondsOf(t) = total

\* the day count d of a text "D.HH:MM:SS", -1 when the text is not of that form
DayCountOf(t) ==
    IF \E d \in 0..MaxDays :
           /\ Len(t) = Len(Str(d)) + 9
           /\ SubSeq(t, 1, Len(Str(d)) + 1) = Str(d) \o <<".">>
           /\ IsHMS(SubSeq(t, Len(Str(d)) + 2, Len(t)))
    THEN CHOOSE d \in 0..MaxDays : SubSeq(t, 1, Len(Str(d)) + 1) = Str(d) \o <<".">>
    ELSE -1

ClockPartOf(t) == SubSeq(t, Len(t) - 7, Len(t))

\* C18: every supported form gives the total duration as HH:MM:SS: a
\* millisecond count n gives floor(n/1000) seconds, a clock value its own
\* hour, minute and second, and a text "D.HH:MM:SS" gives D*24 hours added to
\* its clock part.
C18_EveryFormGivesTotal ==
    dur_pc = "returned" =>
        /\ dur_input.kind = "num" =>
               ShowsTotal(dur_result, dur_input.n \div 1000)
        /\ dur_input.kind = "clock" =>
               ShowsTotal(dur_result,
                          dur_input.clock.hour * 3600
                              + dur_input.clock.minute * 60
                              + dur_input.clock.second)
        /\ dur_input.kind = "text" /\ DayCountOf(dur_input.text) >= 0 =>
               ShowsTotal(dur_result,
                          DayCountOf(dur_input.text) * 24 * 3600
                              + SecondsOf(ClockPartOf(dur_input.text)))

HasDigit(t) == \E i \in 1..Len(t) : IsDigitChar(t[i])

\* C19: an input that is no millisecond count, no clock value and no
\* parsable duration text (None, or a text without a digit) gives the empty
\* string, and format_duration never raises.
C19_UnparsableGivesEmpty ==
    dur_pc # "idle" =>
        /\ dur_pc = "returned"
        /\ \/ dur_input.kind = "none"
           \/ dur_input.kind = "text" /\ ~HasDigit(dur_input.text)
           => dur_result = <<>>

----------------------------------------------------------------------------
(* The order of the stages of a run, read from the run's log of calls *)

ReferenceEvents == {"Get:" \o ReferenceTypes[i] : i \in 1..Len(ReferenceTypes)}
WindowEvents == {"Get:trips", "Get:exceptions", "Get:faults", "Get:status", "Get:logs"}
SignalEvents == {"Get:odometer", "Get:engine_hours"}
BuildEvents == {"build:" \o ReportKinds[i] : i \in 1..Len(ReportKinds)}
RaiseEvents == {"raise:" \o ReportKinds[i] : i \in 1..Len(ReportKinds)}
UploadEvents == {"connect"} \cup {"put:" \o ReportKinds[i] : i \in 1..Len(ReportKinds)}

StageOf(event) ==
    CASE event = "authenticate" -> 0
      [] event \in ReferenceEvents -> 1
      [] event \in WindowEvents -> 2
      [] event \in SignalEvents \cup {"raise:cache_batch_data"} -> 3
      [] event \in BuildEvents \cup RaiseEvents -> 4
      [] event \in UploadEvents -> 5
      [] event = "download" -> 6

Before(j) == {run_log[i] : i \in 1..(j - 1)}

\* what a stage needs finished before its first call
NeededBefore(stage) ==
    CASE stage <= 1 -> {}
      [] stage = 2 -> ReferenceEvents
      [] stage = 3 -> ReferenceEvents \cup WindowEvents
      [] stage = 4 -> ReferenceEvents \cup WindowEvents \cup SignalEvents
      [] stage >= 5 -> ReferenceEvents \cup WindowEvents \cup SignalEvents \cup BuildEvents

StagesInOrder ==
    /\ \A i, j \in 1..Len(run_log) :
           i < j => /\ StageOf(run_log[i]) <= StageOf(run_log[j])
                    /\ run_log[i] # run_log[j]
    /\ \A j \in 1..Len(run_log) :
           /\ NeededBefore(StageOf(run_log[j])) \subseteq Before(j)
           /\ run_log[j] = "download" => "connect" \in Before(j)
    /\ sync_pc # "idle" => run_log # <<>> /\ run_log[Len(run_log)] = "download"

BuilderStarted == run_pc \in {"reports", "upload", "sync", "reconcile"}

\* C21: in a run that authenticates the calls come stage after stage and each
\* stage is complete before the next starts: the reference fetches, the five
\* windowed fetches, the two signal fetches, the builders, the upload, the
\* reconciliation pass; and from the first builder on no step writes a cache.
C21_StagesInOrderCachesFrozen ==
    /\ [](authenticated => StagesInOrder)
    /\ [][BuilderStarted => UNCHANGED <<refVars, batchVars>>]_vars

C21_Witness ==
    /\ authenticated
    /\ run_pc = "done"
    /\ Len(uploaded) = Len(ReportKinds)
    /\ sync_pc = "done"
    /\ api_calls # <<>>

----------------------------------------------------------------------------
(* Specification of the reconciliation pass: rosters in which some rows     *)
(* raise, at the match or at the diff                                       *)

MaxRosterRows == 3

\* d1 is sound, the groups of d2 are bare ids, d3 has no serial number
RowDevices ==
    <<[id |-> "d1", serialNumber |-> "G1", engineVehicleIdentificationNumber |-> "V1",
       vehicleIdentificationNumber |-> "V1", name |-> "Truck1", groups |-> <<ObjRef("A")>>],
      [id |-> "d2", serialNumber |-> "G2", engineVehicleIdentificationNumber |-> "V2",
       vehicleIdentificationNumber |-> "V2", name |-> "Truck2", groups |-> <<StrRef("B")>>],
      [id |-> "d3", engineVehicleIdentificationNumber |-> "V3",
       vehicleIdentificationNumber |-> "V3", name |-> "Truck3", groups |-> <<>>]>>
RowRegistries == {RowDevices, SubSeq(RowDevices, 1, 2)}

\* d1 renamed and moved, d1 as it is, d2 renamed, and a vehicle the registry
\* does not hold
RowPool ==
    { [serial |-> "G1", id |-> "c1", vin |-> "V1", name |-> "Lorry1", groups |-> <<"B">>],
      [serial |-> "G1", id |-> "c1", vin |-> "V1", name |-> "Truck1", groups |-> <<"A">>],
      [serial |-> "G2", id |-> "c2", vin |-> "V2", name |-> "Lorry2", groups |-> <<"B">>],
      [serial |-> "G9", id |-> "c9", vin |-> "V9", name |-> "Lorry9", groups |-> <<>>] }

NextRows == NextSync(RowRegistries, {ExampleGroups}, SeqsUpTo(RowPool, MaxRosterRows))

SpecRows == InitBatch /\ [][NextRows]_vars

\* the first device the scan of lines 1024-1028 stops at: the match, or the
\* one whose serial number cannot be read; 0 when the scan runs to the end
ScanStop(update) ==
    LET stops == {k \in 1..Len(devices) :
                     \/ "serialNumber" \notin DOMAIN devices[k]
                     \/ /\ devices[k].serialNumber = update.serial
                        /\ devices[k].engineVehicleIdentificationNumber = update.vin}
    IN  IF stops = {} THEN 0 ELSE CHOOSE k \in stops : \A j \in stops : k <= j

\* the row raises: KeyError at line 1025, or TypeError at line 1052
RowFails(update) ==
    /\ ScanStop(update) # 0
    /\ \/ "serialNumber" \notin DOMAIN devices[ScanStop(update)]
       \/ \E i \in 1..Len(devices[ScanStop(update)].groups) :
              devices[ScanStop(update)].groups[i].form = "str"

SoundRows == SelectSeq(updates, LAMBDA update : ~RowFails(update))

\* the pass over a roster, row after row
RECURSIVE PassOver(_, _, _)
PassOver(rows, i, acc) ==
    IF i > Len(rows) THEN acc
    ELSE PassOver(rows, i + 1, ProcessRow(devices, changeable_groups, rows[i], acc))

Nothing == [api_calls |-> <<>>, devices_to_update |-> <<>>, row_log |-> <<>>]

LoopFinished == sync_pc \in {"rows", "done"} /\ closure_pc = "done" /\ update_idx > Len(updates)

\* C22: a row that raises at the match or at the diff queues nothing, and the
\* other rows are matched, diffed and queued as in a pass over the roster
\* without the failing rows.
C22_FailingRowIsAsAbsent ==
    LoopFinished =>
        /\ api_calls = PassOver(SoundRows, 1, Nothing).api_calls
        /\ devices_to_update = PassOver(SoundRows, 1, Nothing).devices_to_update
        /\ SelectSeq(row_log, LAMBDA r : r.outcome # "error")
               = PassOver(SoundRows, 1, Nothing).row_log
        /\ Len(SelectSeq(row_log, LAMBDA r : r.outcome = "error"))
               = Len(updates) - Len(SoundRows)

\* a roster whose first row raises at the diff, whose second raises at the
\* match and whose third is queued
C22_Witness ==
    /\ LoopFinished
    /\ Len(row_log) = 3
    /\ row_log[1] = [device |-> 2, outcome |-> "error"]
    /\ row_log[2] = [device |-> 0, outcome |-> "error"]
    /\ row_log[3].outcome = "queued"

----------------------------------------------------------------------------
(* The reconciliation pass and the caches *)

InPass == run_pc = "reconcile"

\* C23: the reconciliation pass leaves every cache as it was: no step of the
\* pass changes a cached device, a cached group or a telemetry cache, queued
\* updates or not; the new name, VIN and groups are only in the entities of
\* the update call.
C23_PassLeavesCaches ==
    /\ [][InPass => UNCHANGED <<refVars, batchVars>>]_vars
    /\ [](InPass /\ updates # <<>> /\ devices_cache # <<>> => devices = devices_cache)

\* a pass over a loaded registry has sent an entity that differs from the
\* cached record of its device
C23_Witness ==
    /\ run_pc = "done"
    /\ sync_pc = "done"
    /\ trips_cache # <<>>
    /\ Len(multi_calls) = 1
    /\ \E i \in 1..Len(devices_cache) :
           /\ devices_cache[i].id = multi_calls[1][1].entity.id
           /\ devices_cache[i] # multi_calls[1][1].entity

----------------------------------------------------------------------------
(* Specification of the telemetry lookups: get_driver_from_device_status    *)
(* and get_most_recent_trip_from_cache on any status snapshots and trips    *)

MaxSnapshots == 3
MaxTrips == 3

\* snapshots of d1 (either form), of d2 and of no device, with a driver in
\* either form or none
Snapshots ==
    [device : {ObjRef("d1"), StrRef("d1"), ObjRef("d2"), NoRef},
     driver : {ObjRef("u1"), StrRef("u2"), NoRef}]

\* trips of d1 and d2, of d1 as a bare id, of no device, and without a stop
TripBodies ==
    [device : {ObjRef("d1"), ObjRef("d2"), StrRef("d1")}, stop : {T1, T2}]
        \cup {[device |-> NoRef, stop |-> T2], [device |-> ObjRef("d1")]}

\* trips as fetched, with ids t1, t2, ... in cache order
TripIds == <<"t1", "t2", "t3", "t4">>
WithTripIds(bodies) ==
    [i \in 1..Len(bodies) |-> [k \in {"id"} \cup DOMAIN bodies[i] |->
                                  IF k = "id" THEN TripIds[i] ELSE bodies[i][k]]]

LookupWindows ==
    {[NoWindow EXCEPT !.status = s] : s \in SeqsUpTo(Snapshots, MaxSnapshots)}
        \cup {[NoWindow EXCEPT !.trips = WithTripIds(t)] : t \in SeqsUpTo(TripBodies, MaxTrips)}

LookupDevices == {"d1", "d2", "d3"}

NextLookup ==
    \/ /\ batch_pc = "idle"
       /\ \E window \in LookupWindows : CacheBatchData(window, <<>>, <<>>)
    \/ /\ batch_pc = "done"
       /\ lookup_pc = "idle"
       /\ \E device_id \in LookupDevices : GetDriverCall(device_id)
    \/ /\ batch_pc = "done"
       /\ lookup_pc = "idle"
       /\ \E device_id \in LookupDevices : GetMostRecentTripCall(device_id)

SpecLookup == InitBatch /\ [][NextLookup]_vars

\* the snapshot is for the device, in either form of the reference
SnapshotOf(status, device_id) ==
    status.device.form \in {"obj", "str"} /\ status.device.id = device_id
SnapshotsOf(device_id) ==
    {k \in 1..Len(device_status_info_cache) :
        SnapshotOf(device_status_info_cache[k], device_id)}
DriverOf(status) == IF status.driver.form \in {"obj", "str"} THEN status.driver.id ELSE ""

\* C24: get_driver_from_device_status returns the driver id of the first
\* snapshot, in snapshot order, that is for the given device, whatever the
\* later ones say, and "" when no snapshot is for the device.
C24_FirstSnapshotWins ==
    lookup_pc = "driver" =>
        IF SnapshotsOf(lookup_device) = {} THEN lookup_driver = ""
        ELSE \E k \in SnapshotsOf(lookup_device) :
                 /\ \A j \in SnapshotsOf(lookup_device) : k <= j
                 /\ lookup_driver = DriverOf(device_status_info_cache[k])

\* a later snapshot of the device names another driver
C24_Witness ==
    /\ lookup_pc = "driver"
    /\ lookup_driver = "u1"
    /\ \E j, k \in SnapshotsOf(lookup_device) :
           /\ j < k
           /\ DriverOf(device_status_info_cache[j]) = "u1"
           /\ DriverOf(device_status_info_cache[k]) = "u2"

\* the trip is of the device, in either form of the reference
TripOf(trip, device_id) ==
    /\ "device" \in DOMAIN trip
    /\ trip.device.form \in {"obj", "str"}
    /\ trip.device.id = device_id
TripsOf(device_id) == {k \in 1..Len(trips_cache) : TripOf(trips_cache[k], device_id)}

\* C25: get_most_recent_trip_from_cache returns a cached trip of the given
\* device whose stop no other cached trip of the device exceeds, the empty
\* value when the device has no cached trip, and leaves the trips cache as
\* it was.
C25_LatestTripOfDevice ==
    /\ lookup_pc # "raised"
    /\ lookup_pc = "trip" =>
           /\ \A k \in 1..Len(trips_cache) : trips_cache[k].id = TripIds[k]
           /\ IF TripsOf(lookup_device) = {} THEN lookup_trip = <<>>
              ELSE \E k \in TripsOf(lookup_device) :
                       /\ lookup_trip = trips_cache[k]
                       /\ \A j \in TripsOf(lookup_device) :
                              ~StrGreater(StopOf(trips_cache[j]), StopOf(trips_cache[k]))

----------------------------------------------------------------------------
(* Specification of the roster parser's header test: files whose first line *)
(* is short or long, with a first field that is a serial number or not      *)

MaxFileLines == 2

\* a G-word shorter than a serial number, and one longer
ShortG == <<"G", "1", "2", "3">>
LongG == SerialA \o <<"9">>
HeaderFirstFields == {SerialA, HeaderWord, ShortWord, ShortG, LongG}

\* the fields after the first: none, four short ones, four longer ones
HeaderRests ==
    { <<>>,
      << <<"c", "2">>, <<"V", "2">>, <<"n">>, <<"A">> >>,
      << <<" ", "c", "1", " ">>, <<"V", "1">>, <<"n", "1">>, <<"A", "|", "B">> >> }

HeaderLines ==
    {Join(<<first>> \o rest, ",") \o <<"\n">> : first \in HeaderFirstFields, rest \in HeaderRests}

InitHeaderSpec ==
    /\ InitIdle
    /\ InitCsv(SeqsUpTo(HeaderLines, MaxFileLines))
    /\ InitPip({[lat |-> 0, lon |-> 0]}, {<<>>})
    /\ InitRest

NextHeader == ParseCsvUpdates

SpecHeader == InitHeaderSpec /\ [][NextHeader]_vars

FirstFieldOf(line) == Split(Strip(line), ",")[1]
LooksLikeSerial(field) == Len(field) = 12 /\ field[1] = "G"

UpdatesOf(lines) == ParseLines(lines, 1, <<>>)

\* C26 as stated: the first line is skipped, and gives no update, exactly when
\* its first field does not start with 'G' or is not 12 characters long; with
\* a serial number as first field it is parsed as a data row.
C26_SkippedIffNotSerial_AsStated ==
    csv_pc = "done" /\ csv_file # <<>> =>
        csv_updates = IF LooksLikeSerial(FirstFieldOf(csv_file[1]))
                      THEN UpdatesOf(csv_file)
                      ELSE UpdatesOf(Tail(csv_file))

LongerThan12(line) == Len(Strip(line)) > 12

\* C26, amended: the first line is skipped, and gives no update, exactly when
\* the stripped line is longer than 12 characters and does not start with 'G'
\* or has another character than ',' in 13th place; with a serial number as
\* first field it is parsed as a data row.
C26_SkippedIffLongAndNotSerialShaped ==
    csv_pc = "done" /\ csv_file # <<>> =>
        /\ csv_updates =
               IF /\ LongerThan12(csv_file[1])
                  /\ \/ Strip(csv_file[1])[1] # "G"
                     \/ Strip(csv_file[1])[13] # ","
               THEN UpdatesOf(Tail(csv_file))
               ELSE UpdatesOf(csv_file)
        /\ LooksLikeSerial(FirstFieldOf(csv_file[1])) => csv_updates = UpdatesOf(csv_file)

\* a short first line whose first field is no serial number gave an update,
\* and so did a first line that starts with a short G-word
C26_Witness ==
    /\ csv_pc = "done"
    /\ Len(csv_file) = 2
    /\ Len(csv_updates) = 2
    /\ csv_updates[1].serial \in {ShortWord, ShortG}
    /\ csv_updates[2].serial = SerialA

----------------------------------------------------------------------------
(* Specification of two reconciliation passes with the same roster, the     *)
(* Set calls of the first applied to the registry in between                *)

\* d1 and d4 are sound (d4 is also in a group outside the roots), the groups
\* of d2 are bare ids, d3 has no serial number
TwiceDevices ==
    <<RowDevices[1],
      [id |-> "d4", serialNumber |-> "G4", engineVehicleIdentificationNumber |-> "V4",
       vehicleIdentificationNumber |-> "", name |-> "G4",
       groups |-> <<ObjRef("X"), ObjRef("A")>>],
      RowDevices[2], RowDevices[3]>>
TwiceRegistries == {TwiceDevices, SubSeq(TwiceDevices, 1, 3)}

\* rows for d1 (renamed and moved; as it is; another name), for d4 (no name,
\* two groups), for d2 and for a vehicle the registry does not hold
TwicePool ==
    RowPool \cup
    { [serial |-> "G1", id |-> "c1", vin |-> "V1", name |-> "Van1", groups |-> <<"A", "C">>],
      [serial |-> "G4", id |-> "c4", vin |-> "V4", name |-> "", groups |-> <<"B", "X">>] }

InitTwiceSpec ==
    /\ InitIdle
    /\ InitCsv({<<>>})
    /\ InitPip({[lat |-> 0, lon |-> 0]}, {<<>>})
    /\ InitZone
    /\ InitRun
    /\ InitDuration({NoDuration})
    /\ InitLookup
    /\ InitPass(TwiceRegistries, SeqsUpTo(TwicePool, MaxRosterRows))

NextTwice ==
    \/ /\ sync_pc = "idle"
       /\ PassStart(ExampleGroups)
    \/ ProcessUpdate
    \/ \E result \in MultiCallResults : ExecuteApiCalls(result)
    \/ ServerApplies

SpecTwice == InitTwiceSpec /\ [][NextTwice]_vars

\* the devices the rows of the roster match, row by row (0: none)
MatchedBy(i) ==
    LET hits == {k \in 1..Len(registry) :
                    /\ "serialNumber" \in DOMAIN registry[k]
                    /\ registry[k].serialNumber = pass_roster[i].serial
                    /\ registry[k].engineVehicleIdentificationNumber = pass_roster[i].vin}
    IN  IF hits = {} THEN 0 ELSE CHOOSE k \in hits : \A j \in hits : k <= j

OneRowPerDevice ==
    \A i, j \in 1..Len(pass_roster) : i # j /\ MatchedBy(i) # 0 => MatchedBy(i) # MatchedBy(j)

SecondPassOver == pass_no = 2 /\ sync_pc = "done"

\* C27: with each device matched by at most one row, a second pass with the
\* same roster and group table over the registry to which the first pass's
\* records were applied queues no device and makes no update call.
C27_SecondPassQueuesNothing ==
    pass_no = 2 /\ OneRowPerDevice =>
        /\ api_calls = <<>>
        /\ devices_to_update = <<>>
        /\ multi_calls = <<>>

\* the first pass sent two entities, and the second pass has gone through
\* the same roster
C27_Witness ==
    /\ SecondPassOver
    /\ OneRowPerDevice
    /\ Len(first_pass_calls) = 2
    /\ Len(row_log) = Len(pass_roster)
    /\ \E i \in 1..Len(row_log) : row_log[i].outcome = "no_update"

=============================================================================
